---- MODULE Spec2Model ----
(***************************************************************************)
(* Resumable Gmail inbox scan with checkpointing (Apps Script):            *)
(* buildSenderReportBatch, processMessages, checkpoint,                    *)
(* mergeRunMapUsingIndex, readIndex, resetScanApi and the action-executor  *)
(* writes (doActionApi, setCheckedApi, processCheckedRows); the auto-scan   *)
(* (startAutoScan, stopAutoScan, autoScanBatch), the scan.reset endpoint   *)
(* of doPost, deleteAllFromSender, and the classify handler of             *)
(* api/classify.js.                                                        *)
(*                                                                         *)
(* The "Sender Report" sheet is the sequence of its data rows: data row i  *)
(* of the sequence is spreadsheet row i + 1 (row 1 is the header).  The    *)
(* "_SenderIndex" sheet is the sequence of its data rows [email_lc, row].  *)
(* User properties are optional values: <<>> is an absent property and     *)
(* <<v>> a property holding v.  Timestamps are naturals ordered like the   *)
(* ISO strings they stand for, with 0 standing for the empty string.       *)
(***************************************************************************)
EXTENDS Integers, Sequences, FiniteSets, TLC

\* ------------------------------------------------------------ bounds
\* Longest inbox (threads) drawn by Init.
MaxThreads == 4
\* Invocations of buildSenderReportBatch in one behaviour.
MaxRuns == 2
\* Action-executor writes in one behaviour.
MaxActionWrites == 2
\* Longest inbox (threads) of the behaviours with the action executor.
MaxActThreads == 2
\* Process kills in one behaviour.
MaxKills == 1
\* Thrown errors in one behaviour.
MaxFailures == 1
\* Longest mailbox (threads) of deleteAllFromSender.
MaxMail == 5
\* Longest senders array of a classify request.
MaxSenders == 3
\* Longest list of addresses the model returns for a batch.
MaxMentions == 2

\* ------------------------------------------------------------ CONFIG
\* CONFIG.PAGE_SIZE_THREADS (50 in the source, scaled to 2).
PAGE_SIZE_THREADS == 2
\* CONFIG.CHECKPOINT_THREADS (100 in the source, scaled to 2 pages).
CHECKPOINT_THREADS == 4
\* page of deleteAllFromSender (100 in the source, scaled to 2).
DELETE_PAGE == 2
\* BATCH_SIZE of classify.js (200 in the source, scaled to 2).
BATCH_SIZE == 2

VARIABLES
    inbox,                  \* the source: threads matching CONFIG.INBOX_QUERY
    props,                  \* PropertiesService user properties
    sheet,                  \* Sender Report data rows as the script sees them
    indexSheet,             \* _SenderIndex data rows as the script sees them
    flushedSheet,           \* Sender Report data rows committed to the spreadsheet
    flushedIndex,           \* _SenderIndex data rows committed to the spreadsheet
    pc,                     \* position inside buildSenderReportBatch ("idle": not running)
    cursor,                 \* local cursor
    totalProcessed,         \* local totalProcessed
    runMap,                 \* local runMap, buckets in insertion order
    threadsSinceCheckpoint, \* local threadsSinceCheckpoint
    timeOver,               \* Date.now() - runStart > RUNTIME_HARD_LIMIT_MS has been seen
    intervalElapsed,        \* Date.now() - lastCheckpointTime >= CHECKPOINT_INTERVAL_MS
    finalCheckpoint,        \* the checkpoint in progress is the final one
    newIndexRows,           \* mergeRunMapUsingIndex: index entries to append
    existingUpdates,        \* mergeRunMapUsingIndex: updates still to apply
    updatedRows,            \* history: rows updated in place by the merge in progress
    runs,                   \* history: invocations so far
    startInitialized,       \* history: KEYS.INITIALIZED was set when the invocation began
    startCursor,            \* history: persisted cursor when the invocation began
    touched,                \* history: offsets searched or absorbed by the invocation
    hist,                   \* history: events since the last reset
    scanDone,               \* history: the last invocation ended with done = true
    actionWrites,           \* history: action-executor writes so far
    kills,                  \* history: kills so far
    caller,                 \* who invoked buildSenderReportBatch last
    committed,              \* history: what the last checkpoint (or the entry) left persisted
    failures,               \* history: thrown fetch and write errors so far
    triggers,               \* the number of time-based triggers for autoScanBatch
    autoScanEnabled,        \* the KEYS.AUTO_SCAN_ENABLED property is 'true'
    aborted,                \* history: the error that ended the last invocation, "" if
                            \* none did or a reset came after it
    lastPost,               \* the last scan.reset request to doPost and its response
    mail,                   \* deleteAllFromSender: all mail, the sender key of each thread
    trashed,                \* deleteAllFromSender: the threads (positions in mail) in the trash
    delPc,                  \* position inside deleteAllFromSender
    delSender,              \* deleteAllFromSender: senderEmail
    delStart,               \* deleteAllFromSender: local start
    delTotal,               \* deleteAllFromSender: local total
    delThreads,             \* deleteAllFromSender: the page of threads being trashed
    delIdx,                 \* deleteAllFromSender: threads of the page trashed so far
    delMatched,             \* history: the threads that matched the query at the call
    clsReq,                 \* classify: the request's method, whether GEMINI_API_KEY
                            \* is set, whether body.senders is an array
    clsSenders,             \* classify: body.senders of the request when it is an array
    clsPc,                  \* position inside the classify handler
    clsNext,                \* classify: number of the next batch
    clsDelete,              \* classify: allDeleteEmails, in insertion order
    clsOutputs,             \* history: what the model returned for each batch so far
    clsReply,               \* classify: the last response sent and the number sent
    other,                  \* the locals of an execution of autoScanBatch that runs
                            \* while another invocation of buildSenderReportBatch does
    lastAction              \* history: the last call of the action executor since
                            \* the scan last ran

\* The auto-scan state.
autoVars == <<triggers, autoScanEnabled>>

\* The variables of the scan and its history.
scanVars == <<inbox, props, sheet, indexSheet, flushedSheet, flushedIndex, pc, cursor,
              totalProcessed, runMap, threadsSinceCheckpoint, timeOver, intervalElapsed,
              finalCheckpoint, newIndexRows, existingUpdates, updatedRows, runs,
              startInitialized, startCursor, touched, hist, scanDone, actionWrites,
              kills>>

\* The state of deleteAllFromSender.
delVars == <<mail, trashed, delPc, delSender, delStart, delTotal, delThreads, delIdx,
             delMatched>>

\* The state of the classify handler.
clsVars == <<clsReq, clsSenders, clsPc, clsNext, clsDelete, clsOutputs, clsReply>>

\* The state outside the scan.
sideVars == <<delVars, clsVars, other, lastAction>>

vars == <<inbox, props, sheet, indexSheet, flushedSheet, flushedIndex, pc, cursor,
          totalProcessed, runMap, threadsSinceCheckpoint, timeOver, intervalElapsed,
          finalCheckpoint, newIndexRows, existingUpdates, updatedRows, runs,
          startInitialized, startCursor, touched, hist, scanDone, actionWrites, kills,
          caller, committed, failures, autoVars, aborted, lastPost, sideVars>>

\* A call of the action executor: the function, and for doActionApi the addresses
\* requested and those whose actions throw.
ActionCall(api, emails, failing) == [api |-> api, emails |-> emails, failing |-> failing]

\* No call of the action executor yet.
NoAction == ActionCall("", {}, {})

\* The other execution is not running.
OtherIdle ==
    [pc |-> "idle", cursor |-> 0, totalProcessed |-> 0, runMap |-> <<>>,
     threadsSinceCheckpoint |-> 0, timeOver |-> FALSE, intervalElapsed |-> FALSE]

Min(a, b) == IF a < b THEN a ELSE b

\* ------------------------------------------------------------ the source
\* String.prototype.toLowerCase on the addresses that occur.
ToLowerCase(s) ==
    CASE s = "A@x.io" -> "a@x.io"
      [] s = "B@x.io" -> "b@x.io"
      [] OTHER -> s

\* Sender keys that can occur.
Keys == {"a@x.io", "b@x.io"}

\* A raw From field: form "angle" is  name <addr>,  "bare" is free text holding
\* addr,  "none" holds no address-like substring.
From(form, name, addr) == [form |-> form, name |-> name, addr |-> addr]

\* A List-Unsubscribe header: comma-separated tokens, each http(s), mailto or other.
Tok(kind, val) == [kind |-> kind, val |-> val]

Msg(from, subject, date, header, inInbox) ==
    [from |-> from, subject |-> subject, date |-> date, header |-> header,
     inInbox |-> inInbox]

ThreadTypes ==
    << << Msg(From("bare", "", "a@x.io"), "", 1, <<>>, TRUE) >>,
       << Msg(From("angle", "Bob", "B@x.io"), "A", 3,
              <<Tok("mailto", "m1"), Tok("http", "u1"), Tok("http", "u2")>>, TRUE),
          Msg(From("bare", "", "b@x.io"), "B", 2, <<Tok("http", "u2")>>, TRUE) >>,
       << Msg(From("angle", "Ann", "A@x.io"), "A", 3, <<Tok("other", "x")>>, TRUE),
          Msg(From("none", "nobody", ""), "B", 2, <<>>, TRUE),
          Msg(From("bare", "", "a@x.io"), "B", 2, <<Tok("http", "u3")>>, TRUE) >>,
       << Msg(From("bare", "", "b@x.io"), "B", 1, <<>>, FALSE) >> >>

ThreadAt(i) == ThreadTypes[((i - 1) % Len(ThreadTypes)) + 1]

InboxOf(s, n) == [i \in 1..n |-> ThreadAt(s + i - 1)]

\* An inbox of n threads that each hold one message whose From field has no address.
QuietInbox(n) == [i \in 1..n |-> << Msg(From("none", "nobody", ""), "C", 1, <<>>, TRUE) >>]

\* The sources that are tried.
Inboxes ==
    {InboxOf(s, n) : s \in 1..Len(ThreadTypes), n \in 0..MaxThreads}
        \cup {QuietInbox(n) : n \in 1..MaxThreads}

\* GmailApp.search(CONFIG.INBOX_QUERY, offset, limit)
Search(offset, limit) == SubSeq(inbox, offset + 1, Min(offset + limit, Len(inbox)))

\* ------------------------------------------------------------ normalizer
\* Faulty variant: a From field without an address gives its text as the address.
parseFromTextAsAddress(rawFrom) ==
    IF rawFrom.form = "none"
    THEN [email |-> rawFrom.name, name |-> ""]
    ELSE [email |-> ToLowerCase(rawFrom.addr), name |-> rawFrom.name]

\* parseFrom: the address in angle brackets, else the first address-like substring,
\* lowercased; no address gives the empty string.
parseFrom(rawFrom) ==
    IF rawFrom.form = "none"
    THEN [email |-> "", name |-> ""]
    ELSE [email |-> ToLowerCase(rawFrom.addr), name |-> rawFrom.name]

RECURSIVE FirstOfKind(_, _)
FirstOfKind(parts, kind) ==
    IF parts = <<>> THEN ""
    ELSE IF Head(parts).kind = kind THEN Head(parts).val
    ELSE FirstOfKind(Tail(parts), kind)

parseListUnsubscribeHeader(headerValue) ==
    [url |-> FirstOfKind(headerValue, "http"), mailto |-> FirstOfKind(headerValue, "mailto")]

\* Position of key's bucket in the run map, 0 when it has none.
RECURSIVE BucketPos(_, _, _)
BucketPos(rm, key, i) ==
    IF i > Len(rm) THEN 0
    ELSE IF rm[i].key = key THEN i
    ELSE BucketPos(rm, key, i + 1)

\* processMessages, one message.
AbsorbMessage(rm, m) ==
    IF ~m.inInbox THEN rm
    ELSE LET p == parseFrom(m.from) IN
         IF p.email = "" THEN rm
         ELSE LET key == ToLowerCase(p.email)
                  pos == BucketPos(rm, key, 1)
                  rm1 == IF pos = 0
                         THEN Append(rm, [key |-> key, email |-> p.email,
                                          name |-> p.name, count |-> 0,
                                          sampleSubject |-> "", lastSeen |-> 0,
                                          unsubUrl |-> "", unsubMailto |-> ""])
                         ELSE rm
                  i == IF pos = 0 THEN Len(rm1) ELSE pos
                  b == rm1[i]
                  unsub == parseListUnsubscribeHeader(m.header)
              IN [rm1 EXCEPT ![i] =
                    [b EXCEPT
                       !.count = b.count + 1,
                       !.sampleSubject =
                           IF b.sampleSubject = "" /\ m.subject # "" THEN m.subject ELSE @,
                       !.lastSeen =
                           IF b.lastSeen = 0 \/ m.date > b.lastSeen THEN m.date ELSE @,
                       !.unsubUrl =
                           IF unsub.url # "" /\ b.unsubUrl = "" THEN unsub.url ELSE @,
                       !.unsubMailto =
                           IF unsub.mailto # "" /\ b.unsubMailto = ""
                           THEN unsub.mailto ELSE @]]

RECURSIVE processMessages(_, _)
processMessages(msgs, rm) ==
    IF msgs = <<>> THEN rm
    ELSE processMessages(Tail(msgs), AbsorbMessage(rm, Head(msgs)))

\* The per-thread loop of buildSenderReportBatch over the first n threads of a page.
RECURSIVE ProcessThreads(_, _, _)
ProcessThreads(threads, n, rm) ==
    IF n = 0 THEN rm
    ELSE ProcessThreads(Tail(threads), n - 1, processMessages(Head(threads), rm))

\* ------------------------------------------------------------ properties
NoProps == [cursor |-> <<>>, totalProcessed |-> <<>>, initialized |-> <<>>]

\* Faulty variant of ReadCursor: the persisted cursor is ignored.
ReadCursorFromZero(p) == 0

\* parseInt(props.getProperty(KEYS.CURSOR) || '0', 10)
ReadCursor(p) == IF p.cursor = <<>> THEN 0 ELSE p.cursor[1]

\* Faulty variant of ReadTotal: the persisted total is read one too high.
ReadTotalOffByOne(p) == IF p.totalProcessed = <<>> THEN 0 ELSE p.totalProcessed[1] + 1

\* parseInt(props.getProperty(KEYS.TOTAL_PROCESSED) || '0', 10)
ReadTotal(p) == IF p.totalProcessed = <<>> THEN 0 ELSE p.totalProcessed[1]

\* ------------------------------------------------------------ sheets
buildRowFromBucket(b) ==
    [act |-> FALSE, email |-> b.email, name |-> b.name, count |-> b.count,
     subject |-> b.sampleSubject, lastSeen |-> b.lastSeen, unsubUrl |-> b.unsubUrl,
     unsubMailto |-> b.unsubMailto, notes |-> "", processed |-> ""]

\* What getValues returns for a row without content.
BlankRow ==
    [act |-> FALSE, email |-> "", name |-> "", count |-> 0, subject |-> "",
     lastSeen |-> 0, unsubUrl |-> "", unsubMailto |-> "", notes |-> "", processed |-> ""]

\* sheet.getRange(row, 1, 1, 10).getValues()[0]
GetRow(s, row) == IF row - 1 \in 1..Len(s) THEN s[row - 1] ELSE BlankRow

\* sheet.getRange(row, 1, 1, 10).setValues([vals])
SetRow(s, row, vals) ==
    [i \in 1..(IF row - 1 > Len(s) THEN row - 1 ELSE Len(s)) |->
        IF i = row - 1 THEN vals ELSE IF i <= Len(s) THEN s[i] ELSE BlankRow]

\* readIndex: the map of the index sheet; a later entry of a key overrides an earlier one.
readIndex(idx) ==
    LET ok(i) == ToLowerCase(idx[i].key) # "" /\ idx[i].row > 1
        ks == {ToLowerCase(idx[i].key) : i \in {j \in 1..Len(idx) : ok(j)}}
        last(k) == CHOOSE i \in 1..Len(idx) :
                      /\ ok(i) /\ ToLowerCase(idx[i].key) = k
                      /\ \A j \in (i + 1)..Len(idx) : ~(ok(j) /\ ToLowerCase(idx[j].key) = k)
    IN [k \in ks |-> idx[last(k)].row]

\* Faulty variant of FirstNewRow: the header row is not counted.
FirstNewRowWithoutHeader(s) == Len(s) + 1

\* firstNewRow = sheet.getLastRow() + 1, the header being row 1.
FirstNewRow(s) == (Len(s) + 1) + 1

\* Faulty variant of IsExisting: every sender is taken for a new one.
IsExistingNever(indexMap, key) == FALSE

\* indexMap.hasOwnProperty(key)
IsExisting(indexMap, key) == key \in DOMAIN indexMap

\* Faulty variant of MergeRow: the row is rebuilt from the bucket, the count added.
MergeRowRebuilt(vals, bucket) ==
    [buildRowFromBucket(bucket) EXCEPT !.email = vals.email,
                                       !.count = vals.count + bucket.count]

\* The merge-field policy of mergeRunMapUsingIndex (newRowVals).
MergeRow(vals, bucket) ==
    [act |-> vals.act,
     email |-> IF vals.email # "" THEN vals.email ELSE bucket.email,
     name |-> IF vals.name # "" THEN vals.name ELSE bucket.name,
     count |-> vals.count + bucket.count,
     subject |-> IF vals.subject # "" THEN vals.subject ELSE bucket.sampleSubject,
     lastSeen |-> IF vals.lastSeen = 0 \/ (bucket.lastSeen # 0 /\ bucket.lastSeen > vals.lastSeen)
                  THEN (IF bucket.lastSeen # 0 THEN bucket.lastSeen ELSE vals.lastSeen)
                  ELSE vals.lastSeen,
     unsubUrl |-> IF vals.unsubUrl # "" THEN vals.unsubUrl ELSE bucket.unsubUrl,
     unsubMailto |-> IF vals.unsubMailto # "" THEN vals.unsubMailto ELSE bucket.unsubMailto,
     notes |-> vals.notes,
     processed |-> vals.processed]

\* Insert row r into rows sorted by count descending, after the rows of equal count.
RECURSIVE InsertByCount(_, _)
InsertByCount(sorted, r) ==
    IF sorted = <<>> THEN <<r>>
    ELSE IF Head(sorted).count >= r.count
         THEN <<Head(sorted)>> \o InsertByCount(Tail(sorted), r)
         ELSE <<r>> \o sorted

RECURSIVE SortRows(_, _)
SortRows(rows, acc) ==
    IF rows = <<>> THEN acc ELSE SortRows(Tail(rows), InsertByCount(acc, Head(rows)))

\* filter.sort(4, false): the data rows reordered by Count descending.
SortByCountDesc(rows) == SortRows(rows, <<>>)

\* setupHeader / resetIndexSheet: clear a sheet that holds no data row.
setupHeader(s) == IF Len(s) > 0 THEN s ELSE <<>>

\* Faulty variant of InitializeSheets: the sheets are set up whatever they hold.
InitializeSheetsAlways(s, idx) == <<<<>>, <<>>>>

\* First-time initialization of buildSenderReportBatch: the sheets it leaves.
InitializeSheets(s, idx) ==
    IF Len(s) > 0 \/ Len(idx) > 0
    THEN <<s, idx>>
    ELSE <<setupHeader(s), setupHeader(idx)>>

\* ------------------------------------------------------------ initial state
\* No call of deleteAllFromSender is in progress.
DeleteIdle ==
    /\ trashed = {}
    /\ delPc = "idle"
    /\ delSender = ""
    /\ delStart = 0
    /\ delTotal = 0
    /\ delThreads = <<>>
    /\ delIdx = 0
    /\ delMatched = {}

\* The classify handler has not been entered.
\* A well-formed request as far as method, key and the type of senders go.
PlainPost == [method |-> "POST", apiKey |-> TRUE, sendersIsArray |-> TRUE]

\* sendJson, and the bare res.end() of the preflight: one more response is sent.
Response(status, body, delete) ==
    [status |-> status, body |-> body, delete |-> delete, count |-> clsReply.count + 1]

ClassifyIdle ==
    /\ clsPc = "idle"
    /\ clsNext = 1
    /\ clsDelete = <<>>
    /\ clsOutputs = <<>>
    /\ clsReply = [status |-> 0, body |-> "none", delete |-> <<>>, count |-> 0]

\* A new user: no properties, a spreadsheet holding the two header rows only.
ScanInit ==
    /\ inbox \in Inboxes
    /\ props = NoProps
    /\ sheet = <<>>
    /\ indexSheet = <<>>
    /\ flushedSheet = <<>>
    /\ flushedIndex = <<>>
    /\ pc = "idle"
    /\ cursor = 0
    /\ totalProcessed = 0
    /\ runMap = <<>>
    /\ threadsSinceCheckpoint = 0
    /\ timeOver = FALSE
    /\ intervalElapsed = FALSE
    /\ finalCheckpoint = FALSE
    /\ newIndexRows = <<>>
    /\ existingUpdates = <<>>
    /\ updatedRows = {}
    /\ runs = 0
    /\ startInitialized = FALSE
    /\ startCursor = 0
    /\ touched = {}
    /\ hist = {}
    /\ scanDone = FALSE
    /\ actionWrites = 0
    /\ kills = 0
    /\ caller = "none"
    /\ committed = [cursor |-> 0, total |-> 0, sheet |-> <<>>, index |-> <<>>]
    /\ failures = 0
    /\ triggers = 0
    /\ autoScanEnabled = FALSE
    /\ aborted = ""
    /\ lastPost = [confirm |-> "undefined", status |-> 0, body |-> ""]
    /\ other = OtherIdle
    /\ lastAction = NoAction

\* The initial state of the scan; the mail of deleteAllFromSender is left out.
Init ==
    /\ ScanInit
    /\ mail = <<>>
    /\ DeleteIdle
    /\ clsReq = PlainPost
    /\ clsSenders = <<>>
    /\ ClassifyIdle

\* The locals of an invocation that has ended.
LocalsCleared ==
    /\ cursor' = 0
    /\ totalProcessed' = 0
    /\ runMap' = <<>>
    /\ threadsSinceCheckpoint' = 0
    /\ timeOver' = FALSE
    /\ intervalElapsed' = FALSE
    /\ finalCheckpoint' = FALSE
    /\ newIndexRows' = <<>>
    /\ existingUpdates' = <<>>
    /\ updatedRows' = {}
    /\ startInitialized' = FALSE
    /\ startCursor' = 0
    /\ touched' = {}

\* A script execution that ends commits its pending spreadsheet writes.
EndOfExecution ==
    /\ flushedSheet' = sheet'
    /\ flushedIndex' = indexSheet'

\* ------------------------------------------------------------ buildSenderReportBatch
\* Entry of buildSenderReportBatch, invoked by who: first-time initialization, then the
\* locals are read from the properties.
Enter(who) ==
    /\ pc = "idle"
    /\ runs < MaxRuns
    /\ LET fresh == props.initialized = <<>>
           sheets == IF fresh THEN InitializeSheets(sheet, indexSheet)
                     ELSE <<sheet, indexSheet>>
           p1 == IF fresh
                 THEN [props EXCEPT !.cursor = <<0>>, !.totalProcessed = <<0>>,
                                    !.initialized = <<"1">>]
                 ELSE props
       IN /\ sheet' = sheets[1]
          /\ indexSheet' = sheets[2]
          /\ props' = p1
          /\ cursor' = ReadCursor(p1)
          /\ totalProcessed' = ReadTotal(p1)
          /\ startInitialized' = ~fresh
          /\ startCursor' = IF props.cursor = <<>> THEN 0 ELSE props.cursor[1]
          /\ hist' = IF fresh /\ (Len(sheet) > 0 \/ Len(indexSheet) > 0)
                     THEN hist \cup {"rescan"} ELSE hist
          /\ committed' = [cursor |-> ReadCursor(p1), total |-> ReadTotal(p1),
                            sheet |-> sheets[1], index |-> sheets[2]]
    /\ pc' = "started"
    /\ runMap' = <<>>
    /\ threadsSinceCheckpoint' = 0
    /\ timeOver' = FALSE
    /\ intervalElapsed' = FALSE
    /\ touched' = {}
    /\ runs' = runs + 1
    /\ scanDone' = FALSE
    /\ UNCHANGED <<inbox, flushedSheet, flushedIndex, finalCheckpoint, newIndexRows,
                   existingUpdates, updatedRows, actionWrites, kills>>
    /\ caller' = who
    /\ aborted' = ""
    /\ lastAction' = NoAction
    /\ UNCHANGED <<failures, lastPost, delVars, clsVars, other>>

\* buildSenderReportBatch run from the menu or by startScanApi.
Start == Enter("menu") /\ UNCHANGED autoVars

\* Where buildSenderReportBatch returns to: the rest of autoScanBatch, or nowhere.
ReturnTo == IF caller = "autoScanBatch" THEN "autoCheck" ELSE "idle"

\* Early exit if the inbox is empty or the cursor is past all threads.
InitialCheck ==
    /\ pc = "started"
    /\ IF Search(cursor, 1) = <<>>
       THEN /\ pc' = ReturnTo
            /\ LocalsCleared
            /\ UNCHANGED <<sheet, indexSheet>>
            /\ EndOfExecution
       ELSE /\ pc' = "loop"
            /\ touched' = touched \cup {cursor}
            /\ UNCHANGED <<sheet, indexSheet, flushedSheet, flushedIndex, cursor,
                           totalProcessed, runMap, threadsSinceCheckpoint, timeOver,
                           intervalElapsed,
                           finalCheckpoint, newIndexRows, existingUpdates, updatedRows,
                           startInitialized, startCursor>>
    /\ UNCHANGED <<inbox, props, runs, hist, scanDone, actionWrites, kills>>
    /\ UNCHANGED <<caller, committed, failures, autoVars, aborted, lastPost, sideVars>>

\* Top of the main loop: the hard time limit check, then the fetch of the next page.
FetchPage ==
    /\ pc = "loop"
    /\ \E over \in BOOLEAN :
          /\ timeOver => over
          /\ timeOver' = over
          /\ IF over
             THEN pc' = "final" /\ touched' = touched
             ELSE /\ touched' = touched \cup {cursor}
                  /\ pc' = IF Search(cursor, PAGE_SIZE_THREADS) = <<>>
                           THEN "final" ELSE "page"
    /\ UNCHANGED <<inbox, props, sheet, indexSheet, flushedSheet, flushedIndex, cursor,
                   totalProcessed, runMap, threadsSinceCheckpoint, intervalElapsed,
                   finalCheckpoint, newIndexRows, existingUpdates, updatedRows, runs,
                   startInitialized, startCursor, hist, scanDone, actionWrites, kills>>
    /\ UNCHANGED <<caller, committed, failures, autoVars, aborted, lastPost, sideVars>>

\* Faulty variant: the thread threshold has to be exceeded.
ShouldCheckpointAboveThreshold(since, elapsed) == since > CHECKPOINT_THREADS \/ elapsed

\* shouldCheckpoint: the thread threshold or the checkpoint interval has been reached.
ShouldCheckpoint(since, elapsed) == since >= CHECKPOINT_THREADS \/ elapsed

\* The per-thread loop (its time check breaks it after n threads), the advance of the
\* cursor by the page's length, and the checkpoint trigger. The clock only moves
\* forward: an interval that had elapsed before the page has elapsed after it. The
\* interval comparison is the right operand of ||: it is evaluated only when the
\* thread threshold has not been reached.
ProcessPage ==
    /\ pc = "page"
    /\ LET threads == Search(cursor, PAGE_SIZE_THREADS) IN
       \E n \in 0..Len(threads), elapsed \in BOOLEAN :
          LET rm == ProcessThreads(threads, n, runMap)
              since == threadsSinceCheckpoint + Len(threads)
              shouldCheckpoint == ShouldCheckpoint(since, elapsed)
          IN /\ intervalElapsed => elapsed
             /\ since >= CHECKPOINT_THREADS => elapsed = intervalElapsed
             /\ intervalElapsed' = elapsed
             /\ runMap' = rm
             /\ timeOver' = (n < Len(threads))
             /\ cursor' = cursor + Len(threads)
             /\ threadsSinceCheckpoint' = since
             /\ totalProcessed' = totalProcessed + Len(threads)
             /\ touched' = touched \cup {cursor + i - 1 : i \in 1..n}
             /\ hist' = IF n < Len(threads) THEN hist \cup {"cut"} ELSE hist
             /\ IF shouldCheckpoint /\ rm # <<>>
                THEN pc' = "merge" /\ finalCheckpoint' = FALSE
                ELSE pc' = "loop" /\ finalCheckpoint' = finalCheckpoint
    /\ UNCHANGED <<inbox, props, sheet, indexSheet, flushedSheet, flushedIndex,
                   newIndexRows, existingUpdates, updatedRows, runs, startInitialized,
                   startCursor, scanDone, actionWrites, kills>>
    /\ UNCHANGED <<caller, committed, failures, autoVars, aborted, lastPost, sideVars>>

\* Faulty variant: the loop's exit goes straight to the probe and the remaining buckets
\* are never merged.
FinalCheckpointSkipped ==
    /\ pc = "final"
    /\ pc' = "probe"
    /\ UNCHANGED <<inbox, props, sheet, indexSheet, flushedSheet, flushedIndex, cursor,
                   totalProcessed, runMap, threadsSinceCheckpoint, timeOver, intervalElapsed,
                   finalCheckpoint, newIndexRows, existingUpdates, updatedRows, runs,
                   startInitialized, startCursor, touched, hist, scanDone, actionWrites,
                   kills>>
    /\ UNCHANGED <<caller, committed, failures, autoVars, aborted, lastPost, sideVars>>

\* After the loop: the final checkpoint for any remaining data.
FinalCheckpoint ==
    /\ pc = "final"
    /\ IF runMap # <<>>
       THEN pc' = "merge" /\ finalCheckpoint' = TRUE
       ELSE pc' = "probe" /\ finalCheckpoint' = finalCheckpoint
    /\ UNCHANGED <<inbox, props, sheet, indexSheet, flushedSheet, flushedIndex, cursor,
                   totalProcessed, runMap, threadsSinceCheckpoint, timeOver, intervalElapsed,
                   newIndexRows, existingUpdates, updatedRows, runs, startInitialized,
                   startCursor, touched, hist, scanDone, actionWrites, kills>>
    /\ UNCHANGED <<caller, committed, failures, autoVars, aborted, lastPost, sideVars>>

\* ------------------------------------------------------------ mergeRunMapUsingIndex
\* readIndex, the partition into new and existing senders, the batch append of new rows.
MergeAppend ==
    /\ pc = "merge"
    /\ LET indexMap == readIndex(indexSheet)
           isNew(b) == ~IsExisting(indexMap, b.key)
           isOld(b) == IsExisting(indexMap, b.key)
           newRows == SelectSeq(runMap, isNew)
           old == SelectSeq(runMap, isOld)
           firstNewRow == FirstNewRow(sheet)
       IN /\ sheet' = sheet \o [i \in 1..Len(newRows) |-> buildRowFromBucket(newRows[i])]
          /\ newIndexRows' = [i \in 1..Len(newRows) |->
                                [key |-> newRows[i].key, row |-> firstNewRow + i - 1]]
          /\ existingUpdates' = [i \in 1..Len(old) |->
                                   [key |-> old[i].key, row |-> indexMap[old[i].key],
                                    bucket |-> old[i]]]
    /\ pc' = "mergeIndex"
    /\ updatedRows' = {}
    /\ UNCHANGED <<inbox, props, indexSheet, flushedSheet, flushedIndex, cursor,
                   totalProcessed, runMap, threadsSinceCheckpoint, timeOver, intervalElapsed,
                   finalCheckpoint, runs, startInitialized, startCursor, touched, hist,
                   scanDone, actionWrites, kills>>
    /\ UNCHANGED <<caller, committed, failures, autoVars, aborted, lastPost, sideVars>>

\* Faulty variant: the new index entries are written from the top of the index.
MergeIndexFromTop ==
    /\ pc = "mergeIndex"
    /\ indexSheet' = newIndexRows \o SubSeq(indexSheet, Len(newIndexRows) + 1,
                                             Len(indexSheet))
    /\ newIndexRows' = <<>>
    /\ pc' = "mergeUpdate"
    /\ UNCHANGED <<inbox, props, sheet, flushedSheet, flushedIndex, cursor,
                   totalProcessed, runMap, threadsSinceCheckpoint, timeOver, intervalElapsed,
                   finalCheckpoint, existingUpdates, updatedRows, runs,
                   startInitialized, startCursor, touched, hist, scanDone, actionWrites,
                   kills>>
    /\ UNCHANGED <<caller, committed, failures, autoVars, aborted, lastPost, sideVars>>

\* The batch append of the new index entries.
MergeIndex ==
    /\ pc = "mergeIndex"
    /\ indexSheet' = indexSheet \o newIndexRows
    /\ newIndexRows' = <<>>
    /\ pc' = "mergeUpdate"
    /\ UNCHANGED <<inbox, props, sheet, flushedSheet, flushedIndex, cursor,
                   totalProcessed, runMap, threadsSinceCheckpoint, timeOver, intervalElapsed,
                   finalCheckpoint, existingUpdates, updatedRows, runs,
                   startInitialized, startCursor, touched, hist, scanDone, actionWrites,
                   kills>>
    /\ UNCHANGED <<caller, committed, failures, autoVars, aborted, lastPost, sideVars>>

\* One read-modify-write of an existing sender's row.
MergeUpdate ==
    /\ pc = "mergeUpdate"
    /\ existingUpdates # <<>>
    /\ LET u == Head(existingUpdates) IN
          IF u.row < 2
          THEN UNCHANGED <<sheet, updatedRows>>
          ELSE /\ sheet' = SetRow(sheet, u.row, MergeRow(GetRow(sheet, u.row), u.bucket))
               /\ updatedRows' = updatedRows \cup {u.row}
    /\ existingUpdates' = Tail(existingUpdates)
    /\ UNCHANGED <<inbox, props, indexSheet, flushedSheet, flushedIndex, pc, cursor,
                   totalProcessed, runMap, threadsSinceCheckpoint, timeOver, intervalElapsed,
                   finalCheckpoint, newIndexRows, runs, startInitialized, startCursor,
                   touched, hist, scanDone, actionWrites, kills>>
    /\ UNCHANGED <<caller, committed, failures, autoVars, aborted, lastPost, sideVars>>

\* Re-sort by Count desc.
MergeSort ==
    /\ pc = "mergeUpdate"
    /\ existingUpdates = <<>>
    /\ sheet' = SortByCountDesc(sheet)
    /\ hist' = IF sheet' # sheet THEN hist \cup {"sortMoved"} ELSE hist
    /\ pc' = "saveCursor"
    /\ UNCHANGED <<inbox, props, indexSheet, flushedSheet, flushedIndex, cursor,
                   totalProcessed, runMap, threadsSinceCheckpoint, timeOver, intervalElapsed,
                   finalCheckpoint, newIndexRows, existingUpdates, updatedRows, runs,
                   startInitialized, startCursor, touched, scanDone, actionWrites, kills>>
    /\ UNCHANGED <<caller, committed, failures, autoVars, aborted, lastPost, sideVars>>

\* ------------------------------------------------------------ checkpoint
\* Faulty variant: the checkpoint writes an offset one past the cursor.
SaveCursorPlusOne ==
    /\ pc = "saveCursor"
    /\ props' = [props EXCEPT !.cursor = <<cursor + 1>>]
    /\ pc' = "saveTotal"
    /\ UNCHANGED <<inbox, sheet, indexSheet, flushedSheet, flushedIndex, cursor,
                   totalProcessed, runMap, threadsSinceCheckpoint, timeOver, intervalElapsed,
                   finalCheckpoint, newIndexRows, existingUpdates, updatedRows, runs,
                   startInitialized, startCursor, touched, hist, scanDone, actionWrites,
                   kills>>
    /\ UNCHANGED <<caller, committed, failures, autoVars, aborted, lastPost, sideVars>>

\* props.setProperty(KEYS.CURSOR, String(cursor))
SaveCursor ==
    /\ pc = "saveCursor"
    /\ props' = [props EXCEPT !.cursor = <<cursor>>]
    /\ pc' = "saveTotal"
    /\ UNCHANGED <<inbox, sheet, indexSheet, flushedSheet, flushedIndex, cursor,
                   totalProcessed, runMap, threadsSinceCheckpoint, timeOver, intervalElapsed,
                   finalCheckpoint, newIndexRows, existingUpdates, updatedRows, runs,
                   startInitialized, startCursor, touched, hist, scanDone, actionWrites,
                   kills>>
    /\ UNCHANGED <<caller, committed, failures, autoVars, aborted, lastPost, sideVars>>

\* props.setProperty(KEYS.TOTAL_PROCESSED, String(totalProcessed))
SaveTotal ==
    /\ pc = "saveTotal"
    /\ props' = [props EXCEPT !.totalProcessed = <<totalProcessed>>]
    /\ pc' = "flush"
    /\ UNCHANGED <<inbox, sheet, indexSheet, flushedSheet, flushedIndex, cursor,
                   totalProcessed, runMap, threadsSinceCheckpoint, timeOver, intervalElapsed,
                   finalCheckpoint, newIndexRows, existingUpdates, updatedRows, runs,
                   startInitialized, startCursor, touched, hist, scanDone, actionWrites,
                   kills>>
    /\ UNCHANGED <<caller, committed, failures, autoVars, aborted, lastPost, sideVars>>

\* SpreadsheetApp.flush()
Flush ==
    /\ pc = "flush"
    /\ flushedSheet' = sheet
    /\ flushedIndex' = indexSheet
    /\ pc' = "checkpointed"
    /\ UNCHANGED <<inbox, props, sheet, indexSheet, cursor, totalProcessed, runMap,
                   threadsSinceCheckpoint, timeOver, intervalElapsed, finalCheckpoint, newIndexRows,
                   existingUpdates, updatedRows, runs, startInitialized, startCursor,
                   touched, hist, scanDone, actionWrites, kills>>
    /\ committed' = [cursor |-> ReadCursor(props), total |-> ReadTotal(props),
                      sheet |-> sheet, index |-> indexSheet]
    /\ UNCHANGED <<caller, failures, autoVars, aborted, lastPost, sideVars>>

\* Back in buildSenderReportBatch: reset for the next chunk, or go on to the probe.
AfterCheckpoint ==
    /\ pc = "checkpointed"
    /\ IF finalCheckpoint
       THEN /\ pc' = "probe"
            /\ UNCHANGED <<runMap, threadsSinceCheckpoint, intervalElapsed>>
       ELSE /\ pc' = "loop"
            /\ runMap' = <<>>
            /\ threadsSinceCheckpoint' = 0
            /\ intervalElapsed' = FALSE
    /\ updatedRows' = {}
    /\ UNCHANGED <<inbox, props, sheet, indexSheet, flushedSheet, flushedIndex, cursor,
                   totalProcessed, timeOver, finalCheckpoint, newIndexRows,
                   existingUpdates, runs, startInitialized, startCursor, touched, hist,
                   scanDone, actionWrites, kills>>
    /\ UNCHANGED <<caller, committed, failures, autoVars, aborted, lastPost, sideVars>>

\* Faulty variant: without done the cursor and the total are not saved at the return.
FinishNotSaving ==
    /\ pc = "probe"
    /\ LET done == Search(cursor, 1) = <<>> IN
          /\ props' = IF done
                      THEN [props EXCEPT !.cursor = <<>>, !.initialized = <<>>,
                                         !.totalProcessed = <<>>]
                      ELSE props
          /\ scanDone' = done
    /\ pc' = ReturnTo
    /\ LocalsCleared
    /\ UNCHANGED <<sheet, indexSheet>>
    /\ EndOfExecution
    /\ UNCHANGED <<inbox, runs, hist, actionWrites, kills>>
    /\ UNCHANGED <<caller, committed, failures, autoVars, aborted, lastPost, sideVars>>

\* Faulty variant: done deletes the cursor and the total but leaves initialized set.
FinishKeepingInitialized ==
    /\ pc = "probe"
    /\ LET done == Search(cursor, 1) = <<>> IN
          /\ props' = IF done
                      THEN [props EXCEPT !.cursor = <<>>, !.totalProcessed = <<>>]
                      ELSE [props EXCEPT !.cursor = <<cursor>>,
                                         !.totalProcessed = <<totalProcessed>>]
          /\ scanDone' = done
    /\ pc' = ReturnTo
    /\ LocalsCleared
    /\ UNCHANGED <<sheet, indexSheet>>
    /\ EndOfExecution
    /\ UNCHANGED <<inbox, runs, hist, actionWrites, kills>>
    /\ UNCHANGED <<caller, committed, failures, autoVars, aborted, lastPost, sideVars>>

\* The final probe: done clears the resumption state, otherwise it is saved.
Finish ==
    /\ pc = "probe"
    /\ LET done == Search(cursor, 1) = <<>> IN
          /\ props' = IF done
                      THEN [props EXCEPT !.cursor = <<>>, !.initialized = <<>>,
                                         !.totalProcessed = <<>>]
                      ELSE [props EXCEPT !.cursor = <<cursor>>,
                                         !.totalProcessed = <<totalProcessed>>]
          /\ scanDone' = done
    /\ pc' = ReturnTo
    /\ LocalsCleared
    /\ UNCHANGED <<sheet, indexSheet>>
    /\ EndOfExecution
    /\ UNCHANGED <<inbox, runs, hist, actionWrites, kills>>
    /\ UNCHANGED <<caller, committed, failures, autoVars, aborted, lastPost, sideVars>>

\* ------------------------------------------------------------ reset
\* Faulty variant: the sheets are recreated but the user properties are kept.
resetScanApiKeepingProperties ==
    /\ pc = "idle"
    /\ sheet' = <<>>
    /\ indexSheet' = <<>>
    /\ EndOfExecution
    /\ props' = props
    /\ hist' = IF Len(sheet) > 0 THEN {"reset"} ELSE {}
    /\ scanDone' = FALSE
    /\ UNCHANGED <<inbox, pc, cursor, totalProcessed, runMap, threadsSinceCheckpoint,
                   timeOver, intervalElapsed, finalCheckpoint, newIndexRows,
                   existingUpdates, updatedRows, runs, startInitialized, startCursor,
                   touched, actionWrites, kills>>
    /\ autoScanEnabled' = FALSE
    /\ aborted' = ""
    /\ UNCHANGED <<caller, committed, failures, triggers, sideVars>>

\* resetScanApi, and resetScan once confirmed: both sheets recreated with their
\* headers only, every user property deleted. A reset that removed rows is recorded.
resetScanApi ==
    /\ pc = "idle"
    /\ sheet' = <<>>
    /\ indexSheet' = <<>>
    /\ EndOfExecution
    /\ props' = NoProps
    /\ hist' = IF Len(sheet) > 0 THEN {"reset"} ELSE {}
    /\ scanDone' = FALSE
    /\ UNCHANGED <<inbox, pc, cursor, totalProcessed, runMap, threadsSinceCheckpoint,
                   timeOver, intervalElapsed, finalCheckpoint, newIndexRows,
                   existingUpdates, updatedRows, runs, startInitialized, startCursor,
                   touched, actionWrites, kills>>
    /\ autoScanEnabled' = FALSE
    /\ aborted' = ""
    /\ UNCHANGED <<caller, committed, failures, triggers, sideVars>>

\* A reset from the menu.
Reset == resetScanApi /\ UNCHANGED lastPost

Next ==
    \/ Start
    \/ InitialCheck
    \/ FetchPage
    \/ ProcessPage
    \/ FinalCheckpoint
    \/ MergeAppend
    \/ MergeIndex
    \/ MergeUpdate
    \/ MergeSort
    \/ SaveCursor
    \/ SaveTotal
    \/ Flush
    \/ AfterCheckpoint
    \/ Finish
    \/ Reset

Spec == Init /\ [][Next]_vars

\* The steps of a running invocation.
RunStep ==
    \/ InitialCheck
    \/ FetchPage
    \/ ProcessPage
    \/ FinalCheckpoint
    \/ MergeAppend
    \/ MergeIndex
    \/ MergeUpdate
    \/ MergeSort
    \/ SaveCursor
    \/ SaveTotal
    \/ Flush
    \/ AfterCheckpoint
    \/ Finish

\* The scan, a running invocation going on until it returns.
SpecLive == Spec /\ WF_vars(RunStep)

\* The top of the main loop in an invocation that gets through at least one page
\* before the hard limit: the limit is not found reached while the cursor is where
\* the invocation started.
FetchPageInBudget == FetchPage /\ (timeOver' => cursor > startCursor)

\* Invocation after invocation on the same source, nothing else.
NextProgress ==
    \/ Start
    \/ InitialCheck
    \/ FetchPageInBudget
    \/ ProcessPage
    \/ FinalCheckpoint
    \/ MergeAppend
    \/ MergeIndex
    \/ MergeUpdate
    \/ MergeSort
    \/ SaveCursor
    \/ SaveTotal
    \/ Flush
    \/ AfterCheckpoint
    \/ Finish

\* Repeated invocations, each going on until it returns and each followed by the
\* next one.
SpecProgress == Init /\ [][NextProgress]_vars /\ WF_vars(NextProgress)

\* ------------------------------------------------------------ what the store holds
RECURSIVE SumCounts(_, _)
SumCounts(rows, k) ==
    IF rows = <<>> THEN 0
    ELSE (IF ToLowerCase(Head(rows).email) = k THEN Head(rows).count ELSE 0)
         + SumCounts(Tail(rows), k)

\* The count the store holds for sender k.
StoredCount(k) == SumCounts(sheet, k)

\* The sender key of a source message, "" when it is not counted.
KeyOf(m) == IF m.inInbox THEN ToLowerCase(parseFrom(m.from).email) ELSE ""

\* The inbox messages of sender k in the threads at offsets 0..n-1.
MessagesOf(k, n) ==
    {tm \in UNION {{<<t, i>> : i \in 1..Len(inbox[t])} : t \in 1..Min(n, Len(inbox))} :
        KeyOf(inbox[tm[1]][tm[2]]) = k}

TrueCount(k, n) == Cardinality(MessagesOf(k, n))

\* ------------------------------------------------------------ action executor
\* The writes of one processed row: on success the row is unchecked and gets its notes
\* and processed timestamp, on an action error it gets the ERROR note only.
ActionRowWrite(r, failed) ==
    IF failed
    THEN [r EXCEPT !.notes = "ERROR"]
    ELSE [r EXCEPT !.act = FALSE, !.notes = "result", !.processed = "timestamp"]

\* setCheckedApi(emails, checked): its writes to the sheet.
setCheckedApi(s, emails, checked) ==
    [i \in 1..Len(s) |->
        IF ToLowerCase(s[i].email) \in emails THEN [s[i] EXCEPT !.act = checked] ELSE s[i]]

\* Faulty variant: the rows are not filtered by the requested addresses.
doActionApiUnfiltered(s, emails, failing) ==
    [i \in 1..Len(s) |-> ActionRowWrite(s[i], ToLowerCase(s[i].email) \in failing)]

\* doActionApi(emails, options): its writes to the sheet; the actions on the senders
\* in failing throw.
doActionApi(s, emails, failing) ==
    [i \in 1..Len(s) |->
        IF ToLowerCase(s[i].email) \in emails
        THEN ActionRowWrite(s[i], ToLowerCase(s[i].email) \in failing)
        ELSE s[i]]

\* processCheckedRows(options) with DRY_RUN false: its writes to the sheet.
processCheckedRows(s, failing) ==
    [i \in 1..Len(s) |->
        IF s[i].act /\ s[i].email # ""
        THEN ActionRowWrite(s[i], ToLowerCase(s[i].email) \in failing)
        ELSE s[i]]

\* A call that writes nothing leaves the state as it is.
ActionFrame ==
    /\ actionWrites < MaxActionWrites
    /\ sheet' # sheet
    /\ actionWrites' = actionWrites + 1
    /\ UNCHANGED <<inbox, props, indexSheet, pc, cursor, totalProcessed, runMap,
                   threadsSinceCheckpoint, timeOver, intervalElapsed, finalCheckpoint, newIndexRows,
                   existingUpdates, updatedRows, runs, startInitialized, startCursor,
                   touched, hist, scanDone, kills>>
    /\ EndOfExecution
    /\ UNCHANGED <<caller, committed, failures, autoVars, aborted, lastPost, delVars,
                   clsVars, other>>

SetChecked ==
    /\ pc = "idle"
    /\ \E emails \in SUBSET Keys, checked \in BOOLEAN :
          sheet' = setCheckedApi(sheet, emails, checked)
    /\ lastAction' = ActionCall("setCheckedApi", {}, {})
    /\ ActionFrame

DoAction ==
    /\ pc = "idle"
    /\ \E emails \in (SUBSET Keys) \ {{}} : \E failing \in SUBSET emails :
          /\ sheet' = doActionApi(sheet, emails, failing)
          /\ lastAction' = ActionCall("doActionApi", emails, failing)
    /\ ActionFrame

ProcessChecked ==
    /\ pc = "idle"
    /\ Len(sheet) > 0
    /\ \E i \in 1..Len(sheet) : sheet[i].act /\ sheet[i].email # ""
    /\ \E failing \in SUBSET Keys :
          sheet' = processCheckedRows(sheet, failing)
    /\ lastAction' = ActionCall("processCheckedRows", {}, {})
    /\ ActionFrame

NextAct ==
    \/ Next
    \/ SetChecked
    \/ DoAction
    \/ ProcessChecked

\* The inboxes that start with the first thread type.
InitAct ==
    /\ Init
    /\ \E n \in 0..MaxActThreads : inbox = InboxOf(1, n)

\* The scan together with the action executor.
SpecAct == InitAct /\ [][NextAct]_vars

\* ------------------------------------------------------------ kill
\* The host terminates the execution at an instruction boundary.  Properties written
\* so far stay; the spreadsheet writes not yet flushed are either all applied or all
\* dropped.
Kill ==
    /\ pc # "idle"
    /\ kills < MaxKills
    /\ kills' = kills + 1
    /\ \E applied \in BOOLEAN :
          /\ sheet' = IF applied THEN sheet ELSE flushedSheet
          /\ indexSheet' = IF applied THEN indexSheet ELSE flushedIndex
          /\ hist' = hist \cup {IF pc = "saveCursor" /\ applied
                                THEN "killedBeforeCursorWrite" ELSE "killed"}
    /\ EndOfExecution
    /\ pc' = "idle"
    /\ LocalsCleared
    /\ UNCHANGED <<inbox, props, runs, scanDone, actionWrites>>
    /\ UNCHANGED <<caller, committed, failures, autoVars, aborted, lastPost, sideVars>>

NextCrash ==
    \/ Next
    \/ Kill

\* The scan under kills by the host.
SpecCrash == Init /\ [][NextCrash]_vars

\* ------------------------------------------------------------ doPost, scan.reset
\* The JSON values of body.confirm that are tried, as JSON text ("undefined": no
\* such member).
ConfirmValues == {"undefined", "false", "null", "0", "\"\"", "true", "1", "\"false\""}

\* Faulty variant of Truthy: every value confirms.
TruthyAlways(json) == TRUE

\* JavaScript truthiness of a JSON value: !body.confirm is false.
Truthy(json) == json \notin {"undefined", "false", "null", "0", "\"\""}

\* doPost with action scan.reset.
PostReset ==
    /\ pc = "idle"
    /\ \E confirm \in ConfirmValues :
          IF ~Truthy(confirm)
          THEN /\ lastPost' = [confirm |-> confirm, status |-> 400,
                                body |-> "Reset requires confirm=true"]
               /\ UNCHANGED <<scanVars, caller, committed, failures, autoVars, aborted,
                              sideVars>>
          ELSE /\ lastPost' = [confirm |-> confirm, status |-> 200,
                                body |-> "Scan reset complete"]
               /\ resetScanApi

NextWeb ==
    \/ Next
    \/ PostReset

\* The scan together with the scan.reset endpoint.
SpecWeb == Init /\ [][NextWeb]_vars

\* Faulty variant: the triggers are left as they are.
DeleteAutoScanTriggersNone(n) == n

\* The loop of stopAutoScan over the project's triggers: the number of autoScanBatch
\* triggers it leaves.
DeleteAutoScanTriggers(n) == 0

\* ------------------------------------------------------------ auto-scan
\* stopAutoScan: the autoScanBatch triggers deleted, the property deleted.
StopAutoScan ==
    /\ pc = "idle"
    /\ triggers > 0 \/ autoScanEnabled
    /\ triggers' = DeleteAutoScanTriggers(triggers)
    /\ autoScanEnabled' = FALSE
    /\ UNCHANGED <<scanVars, caller, committed, failures, aborted, lastPost, sideVars>>

\* startAutoScan: stopAutoScan, a new trigger, the property set, the first batch run
\* at once.
StartAutoScan ==
    /\ triggers' = DeleteAutoScanTriggers(triggers) + 1
    /\ autoScanEnabled' = TRUE
    /\ Enter("startAutoScan")

\* The trigger fires: autoScanBatch runs a batch.
AutoScanBatch ==
    /\ triggers > 0
    /\ Enter("autoScanBatch")
    /\ UNCHANGED autoVars

\* autoScanBatch after its batch: the check whether the scan is done.
AutoCheck ==
    /\ pc = "autoCheck"
    /\ LET remaining == Search(ReadCursor(props), 1) IN
          IF remaining = <<>>
          THEN triggers' = DeleteAutoScanTriggers(triggers) /\ autoScanEnabled' = FALSE
          ELSE UNCHANGED autoVars
    /\ pc' = "idle"
    /\ UNCHANGED <<inbox, props, sheet, indexSheet, flushedSheet, flushedIndex, cursor,
                   totalProcessed, runMap, threadsSinceCheckpoint, timeOver, intervalElapsed,
                   finalCheckpoint, newIndexRows, existingUpdates, updatedRows, runs,
                   startInitialized, startCursor, touched, hist, scanDone, actionWrites,
                   kills, caller, committed, failures, aborted, lastPost, sideVars>>

\* clearUserDataApi: every user property deleted, AUTO_SCAN_ENABLED and SPREADSHEET_ID
\* among them; the triggers are not touched. Without the saved id getSpreadsheet
\* creates a new spreadsheet, so the store the script works on from here is empty.
clearUserDataApi ==
    /\ pc = "idle"
    /\ props' = NoProps
    /\ autoScanEnabled' = FALSE
    /\ sheet' = <<>>
    /\ indexSheet' = <<>>
    /\ EndOfExecution
    /\ hist' = {"cleared"}
    /\ scanDone' = FALSE
    /\ aborted' = ""
    /\ UNCHANGED <<inbox, pc, cursor, totalProcessed, runMap, threadsSinceCheckpoint,
                   timeOver, intervalElapsed, finalCheckpoint, newIndexRows,
                   existingUpdates, updatedRows, runs, startInitialized, startCursor,
                   touched, actionWrites, kills>>
    /\ UNCHANGED <<caller, committed, failures, triggers, lastPost, sideVars>>

NextAuto ==
    \/ Next
    \/ StartAutoScan
    \/ AutoScanBatch
    \/ AutoCheck
    \/ StopAutoScan
    \/ clearUserDataApi

\* The scan together with the auto-scan.
SpecAuto == Init /\ [][NextAuto]_vars

\* ------------------------------------------------------------ overlapping executions
\* Nothing in the script holds a lock: the trigger can fire, and autoScanBatch can
\* run, while an invocation of buildSenderReportBatch started earlier is still active.
\* The other execution has its own locals; its steps are taken as atomic between the
\* steps of the first one.

RECURSIVE ApplyUpdates(_, _)
\* The read-modify-write of the existing senders' rows, in order.
ApplyUpdates(s, updates) ==
    IF updates = <<>> THEN s
    ELSE LET u == Head(updates)
             s1 == IF u.row < 2 THEN s
                   ELSE SetRow(s, u.row, MergeRow(GetRow(s, u.row), u.bucket))
         IN ApplyUpdates(s1, Tail(updates))

\* mergeRunMapUsingIndex in one piece: the sheets it leaves.
mergeRunMapUsingIndex(s, idx, rm) ==
    LET indexMap == readIndex(idx)
        isNew(b) == ~IsExisting(indexMap, b.key)
        isOld(b) == IsExisting(indexMap, b.key)
        newRows == SelectSeq(rm, isNew)
        old == SelectSeq(rm, isOld)
        firstNewRow == FirstNewRow(s)
        appended == s \o [i \in 1..Len(newRows) |-> buildRowFromBucket(newRows[i])]
        entries == [i \in 1..Len(newRows) |->
                      [key |-> newRows[i].key, row |-> firstNewRow + i - 1]]
        updates == [i \in 1..Len(old) |->
                      [row |-> indexMap[old[i].key], bucket |-> old[i]]]
    IN [sheet |-> SortByCountDesc(ApplyUpdates(appended, updates)),
        index |-> idx \o entries]

\* checkpoint() in one piece: the merge, the two properties, the flush.
CheckpointOfOther(rm, cur, total) ==
    LET merged == mergeRunMapUsingIndex(sheet, indexSheet, rm) IN
       /\ sheet' = merged.sheet
       /\ indexSheet' = merged.index
       /\ flushedSheet' = merged.sheet
       /\ flushedIndex' = merged.index
       /\ props' = [props EXCEPT !.cursor = <<cur>>, !.totalProcessed = <<total>>]

\* What the other execution leaves alone of the first one's state.
OtherFrame ==
    UNCHANGED <<inbox, pc, cursor, totalProcessed, runMap, threadsSinceCheckpoint,
                timeOver, intervalElapsed, finalCheckpoint, newIndexRows,
                existingUpdates, updatedRows, startInitialized, startCursor, touched,
                hist, actionWrites, kills, caller, committed, failures, aborted,
                lastPost, delVars, clsVars, lastAction>>

\* The trigger fires while an invocation is active: autoScanBatch enters
\* buildSenderReportBatch, which initializes if need be and reads the properties.
OverlapEnter ==
    /\ triggers > 0
    /\ pc \notin {"idle", "autoCheck"}
    /\ other.pc = "idle"
    /\ runs < MaxRuns
    /\ LET fresh == props.initialized = <<>>
           sheets == IF fresh THEN InitializeSheets(sheet, indexSheet)
                     ELSE <<sheet, indexSheet>>
           p1 == IF fresh
                 THEN [props EXCEPT !.cursor = <<0>>, !.totalProcessed = <<0>>,
                                    !.initialized = <<"1">>]
                 ELSE props
       IN /\ sheet' = sheets[1]
          /\ indexSheet' = sheets[2]
          /\ props' = p1
          /\ other' = [OtherIdle EXCEPT !.pc = "loop", !.cursor = ReadCursor(p1),
                                        !.totalProcessed = ReadTotal(p1)]
    /\ runs' = runs + 1
    /\ UNCHANGED <<flushedSheet, flushedIndex, scanDone, autoVars>>
    /\ OtherFrame

\* One pass of the other execution's main loop: the time check, the fetch, the
\* per-thread loop, the advance and the checkpoint trigger with its checkpoint.
OverlapPage ==
    /\ other.pc = "loop"
    /\ LET threads == Search(other.cursor, PAGE_SIZE_THREADS) IN
       \E over \in BOOLEAN, n \in 0..Len(threads), elapsed \in BOOLEAN :
          /\ other.timeOver => over
          /\ IF over \/ threads = <<>>
             THEN /\ other' = [other EXCEPT !.pc = "final", !.timeOver = over]
                  /\ UNCHANGED <<props, sheet, indexSheet, flushedSheet, flushedIndex>>
             ELSE LET rm == ProcessThreads(threads, n, other.runMap)
                      since == other.threadsSinceCheckpoint + Len(threads)
                      cur == other.cursor + Len(threads)
                      total == other.totalProcessed + Len(threads)
                      moved == [other EXCEPT !.cursor = cur, !.totalProcessed = total,
                                             !.timeOver = (n < Len(threads))]
                  IN /\ other.intervalElapsed => elapsed
                     /\ since >= CHECKPOINT_THREADS => elapsed = other.intervalElapsed
                     /\ IF ShouldCheckpoint(since, elapsed) /\ rm # <<>>
                        THEN /\ CheckpointOfOther(rm, cur, total)
                             /\ other' = [moved EXCEPT !.runMap = <<>>,
                                                       !.threadsSinceCheckpoint = 0,
                                                       !.intervalElapsed = FALSE]
                        ELSE /\ other' = [moved EXCEPT !.runMap = rm,
                                                       !.threadsSinceCheckpoint = since,
                                                       !.intervalElapsed = elapsed]
                             /\ UNCHANGED <<props, sheet, indexSheet, flushedSheet,
                                            flushedIndex>>
    /\ UNCHANGED <<runs, scanDone, autoVars>>
    /\ OtherFrame

\* The other execution after its loop: the final checkpoint, the probe with the done
\* handling, then autoScanBatch's own check that stops the trigger when nothing remains.
OverlapFinish ==
    /\ other.pc = "final"
    /\ LET final == other.runMap # <<>>
           merged == IF final
                     THEN mergeRunMapUsingIndex(sheet, indexSheet, other.runMap)
                     ELSE [sheet |-> sheet, index |-> indexSheet]
           done == Search(other.cursor, 1) = <<>>
           p1 == IF done
                 THEN [props EXCEPT !.cursor = <<>>, !.initialized = <<>>,
                                    !.totalProcessed = <<>>]
                 ELSE [props EXCEPT !.cursor = <<other.cursor>>,
                                    !.totalProcessed = <<other.totalProcessed>>]
           remaining == Search(ReadCursor(p1), 1)
       IN /\ sheet' = merged.sheet
          /\ indexSheet' = merged.index
          /\ flushedSheet' = merged.sheet
          /\ flushedIndex' = merged.index
          /\ props' = p1
          /\ scanDone' = done
          /\ IF remaining = <<>>
             THEN triggers' = DeleteAutoScanTriggers(triggers) /\ autoScanEnabled' = FALSE
             ELSE UNCHANGED autoVars
    /\ other' = OtherIdle
    /\ runs' = runs
    /\ OtherFrame

NextOverlap ==
    \/ NextAuto
    \/ OverlapEnter
    \/ OverlapPage
    \/ OverlapFinish

\* The scan and the auto-scan with executions that may overlap.
SpecOverlap == Init /\ [][NextOverlap]_vars

\* ------------------------------------------------------------ thrown errors
\* The script ends on an uncaught error (autoScanBatch catches it and ends): the
\* locals are gone, the spreadsheet writes made so far are applied or dropped.
\* Faulty variant: the catch block stops the auto-scan.
CatchAutoScanErrorStopping ==
    /\ triggers' = DeleteAutoScanTriggers(triggers)
    /\ autoScanEnabled' = FALSE

\* The catch block of autoScanBatch: the error is logged, nothing else.
CatchAutoScanError == UNCHANGED autoVars

Abort(kind) ==
    /\ failures < MaxFailures
    /\ failures' = failures + 1
    /\ aborted' = kind
    /\ \E applied \in BOOLEAN :
          /\ sheet' = IF applied THEN sheet ELSE flushedSheet
          /\ indexSheet' = IF applied THEN indexSheet ELSE flushedIndex
    /\ EndOfExecution
    /\ pc' = "idle"
    /\ LocalsCleared
    /\ IF caller = "autoScanBatch" THEN CatchAutoScanError ELSE UNCHANGED autoVars
    /\ UNCHANGED <<inbox, runs, hist, scanDone, actionWrites, kills, caller, committed,
                   lastPost, sideVars>>

\* Faulty variant of FetchFail: the local progress is saved on the way out.
FetchFailSavingProgress ==
    /\ pc \in {"started", "loop", "page", "probe"}
    /\ props' = [props EXCEPT !.cursor = <<cursor>>, !.totalProcessed = <<totalProcessed>>]
    /\ Abort("fetch")

\* GmailApp.search or GmailApp.getMessagesForThreads throws.
FetchFail ==
    /\ pc \in {"started", "loop", "page", "probe"}
    /\ props' = props
    /\ Abort("fetch")

\* Faulty variant of WriteFail: the local progress is saved on the way out.
WriteFailSavingProgress ==
    /\ pc \in {"merge", "mergeIndex"} \/ (pc = "mergeUpdate" /\ existingUpdates # <<>>)
    /\ props' = [props EXCEPT !.cursor = <<cursor>>, !.totalProcessed = <<totalProcessed>>]
    /\ Abort("write")

\* A setValues of mergeRunMapUsingIndex throws: the append of the new rows, the
\* append of the index entries or the write of an updated row.
WriteFail ==
    /\ pc \in {"merge", "mergeIndex"} \/ (pc = "mergeUpdate" /\ existingUpdates # <<>>)
    /\ props' = props
    /\ Abort("write")

NextFail ==
    \/ Next
    \/ FetchFail
    \/ WriteFail

\* The scan under thrown errors.
SpecFail == Init /\ [][NextFail]_vars

\* The completion probe of autoScanBatch (the search after the batch) throws: the
\* catch block ends the execution.
ProbeFail ==
    /\ pc = "autoCheck"
    /\ failures < MaxFailures
    /\ failures' = failures + 1
    /\ aborted' = "probe"
    /\ pc' = "idle"
    /\ CatchAutoScanError
    /\ UNCHANGED <<inbox, props, sheet, indexSheet, flushedSheet, flushedIndex, cursor,
                   totalProcessed, runMap, threadsSinceCheckpoint, timeOver, intervalElapsed,
                   finalCheckpoint, newIndexRows, existingUpdates, updatedRows, runs,
                   startInitialized, startCursor, touched, hist, scanDone, actionWrites,
                   kills, caller, committed, lastPost, sideVars>>

\* An auto-scan from startAutoScan on, run by the trigger, with thrown errors.
NextAutoFail ==
    \/ StartAutoScan
    \/ AutoScanBatch
    \/ RunStep
    \/ AutoCheck
    \/ FetchFail
    \/ WriteFail
    \/ ProbeFail

\* The auto-scan under thrown errors.
SpecAutoFail == Init /\ [][NextAutoFail]_vars

\* ------------------------------------------------------------ deleteAllFromSender
\* All mail: every sequence of threads, each from one of the senders.
Mailboxes == UNION {[1..n -> Keys] : n \in 0..MaxMail}

\* The threads that match from:"senderEmail": those from the sender not in the trash,
\* in mailbox order.
Matching(senderEmail) ==
    LET matches(i) == mail[i] = senderEmail /\ i \notin trashed
    IN SelectSeq([i \in 1..Len(mail) |-> i], matches)

\* GmailApp.search(query, start, page)
SearchFrom(senderEmail, start, page) ==
    LET m == Matching(senderEmail) IN SubSeq(m, start + 1, Min(start + page, Len(m)))

\* deleteAllFromSender reads and writes nothing of the scan or of the classify handler.
ScanUntouched ==
    UNCHANGED <<scanVars, caller, committed, failures, autoVars, aborted, lastPost,
                clsVars, other, lastAction>>

\* The call: query built, start = 0, total = 0.
DeleteCall ==
    /\ delPc = "idle"
    /\ \E senderEmail \in Keys :
          /\ delSender' = senderEmail
          /\ delMatched' = {Matching(senderEmail)[i] : i \in 1..Len(Matching(senderEmail))}
    /\ delStart' = 0
    /\ delTotal' = 0
    /\ delPc' = "search"
    /\ UNCHANGED <<mail, trashed, delThreads, delIdx>>
    /\ ScanUntouched

\* Top of the loop: the search; an empty page ends the loop and the function returns.
DeleteSearch ==
    /\ delPc = "search"
    /\ LET threads == SearchFrom(delSender, delStart, DELETE_PAGE) IN
          /\ delThreads' = threads
          /\ delPc' = IF threads = <<>> THEN "returned" ELSE "trash"
    /\ delIdx' = 0
    /\ UNCHANGED <<mail, trashed, delSender, delStart, delTotal, delMatched>>
    /\ ScanUntouched

\* threads.forEach(th => th.moveToTrash()), one thread.
DeleteTrash ==
    /\ delPc = "trash"
    /\ delIdx < Len(delThreads)
    /\ trashed' = trashed \cup {delThreads[delIdx + 1]}
    /\ delIdx' = delIdx + 1
    /\ UNCHANGED <<mail, delPc, delSender, delStart, delTotal, delThreads, delMatched>>
    /\ ScanUntouched

\* total += threads.length; start += page.
DeleteAdvance ==
    /\ delPc = "trash"
    /\ delIdx = Len(delThreads)
    /\ delTotal' = delTotal + Len(delThreads)
    /\ delStart' = delStart + DELETE_PAGE
    /\ delPc' = "search"
    /\ UNCHANGED <<mail, trashed, delSender, delThreads, delIdx, delMatched>>
    /\ ScanUntouched

NextDelete ==
    \/ DeleteCall
    \/ DeleteSearch
    \/ DeleteTrash
    \/ DeleteAdvance

\* A mailbox, no scan running, no call of deleteAllFromSender yet.
InitDelete ==
    /\ ScanInit
    /\ inbox = <<>>
    /\ mail \in Mailboxes
    /\ DeleteIdle
    /\ clsReq = PlainPost
    /\ clsSenders = <<>>
    /\ ClassifyIdle

\* deleteAllFromSender on its own.
SpecDelete == InitDelete /\ [][NextDelete]_vars

\* ------------------------------------------------------------ classify.js
\* An element of body.senders: the type of its email member and, for a string, its value.
Sender(type, email) == [type |-> type, email |-> email]

\* The elements of body.senders that are tried.
SenderValues ==
    {Sender("string", "A@x.io"), Sender("string", "a@x.io"), Sender("string", "b@x.io"),
     Sender("string", "nobody"), Sender("undefined", "")}

\* The senders arrays that are tried.
Requests == UNION {[1..n -> SenderValues] : n \in 0..MaxSenders}

\* The strings parseGeminiResponse hands back for a batch: addresses of the request in
\* another casing, and the email of a sender that is not a valid one.
Mentions == {"a@x.io", "B@x.io", "nobody"}

ModelOutputs == UNION {[1..n -> Mentions] : n \in 0..MaxMentions}

\* s.email.includes("@") on the strings that occur.
IncludesAt(str) == str \in {"A@x.io", "a@x.io", "B@x.io", "b@x.io"}

\* s && typeof s.email === "string" && s.email.includes("@")
IsValidSender(s) == s.type = "string" /\ IncludesAt(s.email)

validSenders(senders) == SelectSeq(senders, IsValidSender)

\* The batches: validSenders.slice(i, i + BATCH_SIZE) for i = 0, BATCH_SIZE, ...
NumBatches(valid) == (Len(valid) + BATCH_SIZE - 1) \div BATCH_SIZE

Batch(valid, b) ==
    SubSeq(valid, (b - 1) * BATCH_SIZE + 1, Min(b * BATCH_SIZE, Len(valid)))

\* Faulty variant of InBatch: whatever the model returns is taken.
InBatchAlways(batch, email) == TRUE

\* inputEmails.has(email.toLowerCase())
InBatch(batch, email) ==
    ToLowerCase(email) \in {ToLowerCase(batch[i].email) : i \in 1..Len(batch)}

\* allDeleteEmails after the loop over deleteEmails: a Set, in insertion order.
RECURSIVE AddDeleteEmails(_, _, _)
AddDeleteEmails(all, deleteEmails, batch) ==
    IF deleteEmails = <<>> THEN all
    ELSE LET email == Head(deleteEmails)
             lc == ToLowerCase(email)
             seen == \E i \in 1..Len(all) : all[i] = lc
             next == IF InBatch(batch, email) /\ ~seen THEN Append(all, lc) ELSE all
         IN AddDeleteEmails(next, Tail(deleteEmails), batch)

\* emailCaseMap.get(e) || e: the Map keeps the last sender of each lower-cased address.
OriginalCasing(valid, e) ==
    LET at == {i \in 1..Len(valid) : ToLowerCase(valid[i].email) = e}
    IN IF at = {} THEN e
       ELSE valid[CHOOSE i \in at : \A j \in at : j <= i].email

\* The handler reads and writes nothing of the scan or of deleteAllFromSender.
ClassifyFrame ==
    UNCHANGED <<scanVars, caller, committed, failures, autoVars, aborted, lastPost,
                delVars, clsReq, clsSenders, other, lastAction>>

\* The requests that are tried: three methods, the key set or not, senders an array or
\* something else (then there is no array to look at).
Methods == {"OPTIONS", "GET", "POST"}

ClassifyRequests == [method : Methods, apiKey : BOOLEAN, sendersIsArray : BOOLEAN]

\* Faulty variant: the key is looked at before the method.
EarlyStatusKeyFirst(req, senders) ==
    IF ~req.apiKey THEN 500
    ELSE IF req.method = "OPTIONS" THEN 204
    ELSE IF req.method # "POST" THEN 405
    ELSE IF ~req.sendersIsArray \/ senders = <<>> THEN 400
    ELSE IF validSenders(senders) = <<>> THEN 400
    ELSE 0

\* The checks before the model is called, in the handler's order: the status of the
\* first one that fails, 0 when all pass.
EarlyStatus(req, senders) ==
    IF req.method = "OPTIONS" THEN 204
    ELSE IF req.method # "POST" THEN 405
    ELSE IF ~req.apiKey THEN 500
    ELSE IF ~req.sendersIsArray \/ senders = <<>> THEN 400
    ELSE IF validSenders(senders) = <<>> THEN 400
    ELSE 0

\* The handler up to the batches: the preflight and the validation of the request.
ClassifyValidate ==
    /\ clsPc = "idle"
    /\ LET status == EarlyStatus(clsReq, clsSenders) IN
          IF status # 0
          THEN /\ clsReply' = Response(status, IF status = 204 THEN "none" ELSE "error",
                                       <<>>)
               /\ clsPc' = "replied"
          ELSE /\ clsReply' = clsReply
               /\ clsPc' = "batches"
    /\ UNCHANGED <<clsNext, clsDelete, clsOutputs>>
    /\ ClassifyFrame

\* One round of the loop over the batches: the model is asked and its answer filtered.
ClassifyBatch ==
    /\ clsPc = "batches"
    /\ clsNext <= NumBatches(validSenders(clsSenders))
    /\ \E deleteEmails \in ModelOutputs :
          /\ clsDelete' = AddDeleteEmails(clsDelete, deleteEmails,
                                           Batch(validSenders(clsSenders), clsNext))
          /\ clsOutputs' = Append(clsOutputs, deleteEmails)
    /\ clsNext' = clsNext + 1
    /\ UNCHANGED <<clsPc, clsReply>>
    /\ ClassifyFrame

\* model.generateContent throws: the catch answers 502.
ClassifyFail ==
    /\ clsPc = "batches"
    /\ clsNext <= NumBatches(validSenders(clsSenders))
    /\ clsReply' = Response(502, "error", <<>>)
    /\ clsPc' = "replied"
    /\ UNCHANGED <<clsNext, clsDelete, clsOutputs>>
    /\ ClassifyFrame

\* After the loop: the delete list in the casing of the input, status 200.
ClassifyReply ==
    /\ clsPc = "batches"
    /\ clsNext > NumBatches(validSenders(clsSenders))
    /\ clsReply' = Response(200, "delete",
                            [i \in 1..Len(clsDelete) |->
                               OriginalCasing(validSenders(clsSenders), clsDelete[i])])
    /\ clsPc' = "replied"
    /\ UNCHANGED <<clsNext, clsDelete, clsOutputs>>
    /\ ClassifyFrame

NextClassify ==
    \/ ClassifyValidate
    \/ ClassifyBatch
    \/ ClassifyFail
    \/ ClassifyReply

\* A request has arrived; nothing else is going on.
InitClassify ==
    /\ ScanInit
    /\ inbox = <<>>
    /\ mail = <<>>
    /\ DeleteIdle
    /\ clsReq \in ClassifyRequests
    /\ clsSenders \in Requests
    /\ ~clsReq.sendersIsArray => clsSenders = <<>>
    /\ ClassifyIdle

\* The classify handler on its own.
SpecClassify == InitClassify /\ [][NextClassify]_vars

\* ------------------------------------------------------------ claims
AllCounts(n) == \A k \in Keys : StoredCount(k) = TrueCount(k, n)

\* No re-sort has moved a store row away from its indexed row number since the
\* last reset.
RowsInPlace == "sortMoved" \notin hist

\* C1: over any sequence of invocations on an unchanging source (rows in place), the
\* stored count of a sender never exceeds the number of inbox messages from that sender.
C1_NoDoubleCount ==
    RowsInPlace => \A k \in Keys : StoredCount(k) <= TrueCount(k, Len(inbox))

\* C2: at the start of every invocation and immediately after every checkpoint (rows
\* in place), the store reflects exactly the threads at offsets below the persisted
\* cursor.
C2_CursorReflectsStore ==
    (pc \in {"started", "checkpointed"} /\ RowsInPlace) => AllCounts(ReadCursor(props))

\* C3: once the scan has reached done (a first time since the store was empty, rows
\* in place), the stored count of every sender is its number of inbox messages over
\* all pages.
C3_Additivity ==
    (pc = "idle" /\ scanDone /\ "rescan" \notin hist /\ RowsInPlace)
        => AllCounts(Len(inbox))

\* C4: whenever checkpoint() has written the cursor, the store and index writes of
\* that checkpoint are already committed.
C4_CursorWrittenAfterCommit ==
    pc \in {"saveTotal", "flush"} => (flushedSheet = sheet /\ flushedIndex = indexSheet)

\* C5: when the only disturbance was a kill after a checkpoint's store and index
\* writes but before its cursor write, the finished scan holds the counts of an
\* uninterrupted run.
C5_CrashSafety ==
    (pc = "idle" /\ scanDone /\ hist = {"killedBeforeCursorWrite"})
        => AllCounts(Len(inbox))

\* C6: an invocation that starts initialized with persisted cursor c searches only
\* at offsets >= c and absorbs no thread at an offset below c.
C6_IdempotentResume ==
    (pc # "idle" /\ startInitialized) => \A o \in touched : o >= startCursor

C6_Witness ==
    /\ pc = "checkpointed"
    /\ startInitialized
    /\ startCursor > 0
    /\ touched # {}

IndexKeys == {ToLowerCase(indexSheet[i].key) : i \in 1..Len(indexSheet)}

SheetKeys == {ToLowerCase(sheet[i].email) : i \in 1..Len(sheet)}

\* C7: without crashes, outside the append of a merge, the keys of the index are the
\* sender keys of the store records and no sender has two store rows.
C7_IndexMatchesStore ==
    pc # "mergeIndex" =>
        /\ IndexKeys = SheetKeys
        /\ \A i, j \in 1..Len(sheet) :
              ToLowerCase(sheet[i].email) = ToLowerCase(sheet[j].email) => i = j

C7_Witness ==
    /\ pc = "checkpointed"
    /\ updatedRows # {}
    /\ Len(sheet) >= 2
    /\ Len(indexSheet) >= 2

\* C8: after every merge, for every key of the index the store row at the indexed
\* row number holds that key's record.
C8_RowLocationsStable ==
    pc \notin {"mergeIndex", "mergeUpdate"} =>
        \A i \in 1..Len(indexSheet) :
            ToLowerCase(GetRow(sheet, indexSheet[i].row).email) = indexSheet[i].key

\* The Act? flag, Notes/Status and Processed values of the records of sender k.
ExecutorFields(s, k) ==
    {<<s[i].act, s[i].notes, s[i].processed>> :
        i \in {j \in 1..Len(s) : ToLowerCase(s[j].email) = k}}

\* A step of a merge keeps the three executor fields of every existing record.
MergeStepKeepsExecutorFields ==
    pc \in {"merge", "mergeIndex", "mergeUpdate"} =>
        (\A k \in SheetKeys : ExecutorFields(sheet', k) = ExecutorFields(sheet, k))

\* C9: no step of a merge changes the Act? flag, the Notes/Status value or the
\* Processed timestamp of an existing store record.
C9_MergeKeepsExecutorFields == [][MergeStepKeepsExecutorFields]_vars

C9_Witness ==
    /\ pc = "mergeUpdate"
    /\ \E r \in updatedRows :
          /\ GetRow(sheet, r).act
          /\ GetRow(sheet, r).notes # ""
          /\ GetRow(sheet, r).processed # ""

\* A step that initializes over existing data changes no row, and a step that
\* lowers the number of store records is a reset.
StepWipesNothing ==
    /\ (pc = "idle" /\ pc' = "started" /\ props.initialized = <<>>
            /\ (Len(sheet) > 0 \/ Len(indexSheet) > 0))
          => (sheet' = sheet /\ indexSheet' = indexSheet)
    /\ (Len(sheet') < Len(sheet)) => Reset

\* C10: initialization of buildSenderReportBatch with existing data leaves every store
\* record and index entry unchanged, and the number of store records decreases only
\* through a reset.
C10_NoImplicitWipe == [][StepWipesNothing]_vars

C10_Witness ==
    /\ pc = "started"
    /\ ~startInitialized
    /\ Len(sheet) > 0
    /\ Len(indexSheet) > 0

\* An invocation that began uninitialized is at its final probe and no time check
\* has cut it.
UncutFreshAtProbe == pc = "probe" /\ ~startInitialized /\ ~timeOver

\* C11: a run from a fresh state that the time budget does not cut returns, and at
\* its final probe it finds the source exhausted (done = true) with a processed total
\* equal to the number of threads of the source.
C11_ExhaustionDetection ==
    /\ [](UncutFreshAtProbe =>
            (Search(cursor, 1) = <<>> /\ totalProcessed = Len(inbox)))
    /\ ((pc = "started" /\ ~startInitialized) ~> (pc = "idle"))

C11_Witness ==
    /\ UncutFreshAtProbe
    /\ Len(inbox) > PAGE_SIZE_THREADS
    /\ totalProcessed = Len(inbox)
    /\ Search(cursor, 1) = <<>>

\* The sender keys of the buckets of the run map.
RunMapKeys == {runMap[i].key : i \in 1..Len(runMap)}

\* The three steps of a merge: the append of one row per new key, the index entry of
\* each appended row, one update of one row per existing key.
MergeStepPartitions ==
    /\ pc = "merge" =>
          LET indexMap == readIndex(indexSheet)
              newKeys == RunMapKeys \ DOMAIN indexMap
              oldKeys == RunMapKeys \cap DOMAIN indexMap
          IN /\ Len(sheet') = Len(sheet) + Cardinality(newKeys)
             /\ SubSeq(sheet', 1, Len(sheet)) = sheet
             /\ \A k \in newKeys :
                   Cardinality({i \in (Len(sheet) + 1)..Len(sheet') :
                                   ToLowerCase(sheet'[i].email) = k}) = 1
             /\ Len(existingUpdates') = Cardinality(oldKeys)
             /\ {existingUpdates'[i].key : i \in 1..Len(existingUpdates')} = oldKeys
    /\ pc = "mergeIndex" =>
          LET before == readIndex(indexSheet)
              after == readIndex(indexSheet')
          IN /\ sheet' = sheet
             /\ \A i \in 1..Len(sheet) :
                   LET k == ToLowerCase(sheet[i].email) IN
                   k \notin DOMAIN before => (k \in DOMAIN after /\ after[k] = i + 1)
             /\ \A k \in DOMAIN before : k \in DOMAIN after /\ after[k] = before[k]
    /\ (pc = "mergeUpdate" /\ existingUpdates # <<>>) =>
          LET row == Head(existingUpdates).row IN
          /\ Len(sheet') = Len(sheet)
          /\ \A i \in 1..Len(sheet) : i # row - 1 => sheet'[i] = sheet[i]
          /\ row \notin updatedRows
          /\ row \in updatedRows'

\* C12: a merge appends exactly one store row for each bucket key absent from the
\* index and updates exactly one row in place for each bucket key present in it, and
\* each appended key gets an index entry holding the row at which it was appended.
C12_MergePartition == [][MergeStepPartitions]_vars

C12_Witness ==
    /\ pc = "mergeUpdate"
    /\ existingUpdates = <<>>
    /\ updatedRows # {}
    /\ \E i \in 1..Len(indexSheet) :
          indexSheet[i].row = Len(sheet) + 1 /\ indexSheet[i].key \in RunMapKeys

\* The messages of the threads at offsets 0..n-1, in scan order.
RECURSIVE ScannedMessages(_)
ScannedMessages(n) ==
    IF n = 0 THEN <<>> ELSE ScannedMessages(n - 1) \o inbox[n]

\* The subject of the first message of msgs from sender k with a non-empty subject.
RECURSIVE FirstSubject(_, _)
FirstSubject(msgs, k) ==
    IF msgs = <<>> THEN ""
    ELSE IF KeyOf(Head(msgs)) = k /\ Head(msgs).subject # "" THEN Head(msgs).subject
    ELSE FirstSubject(Tail(msgs), k)

\* The greatest timestamp of the messages of msgs from sender k, 0 (empty) if none.
RECURSIVE GreatestDate(_, _)
GreatestDate(msgs, k) ==
    IF msgs = <<>> THEN 0
    ELSE LET rest == GreatestDate(Tail(msgs), k) IN
         IF KeyOf(Head(msgs)) = k /\ Head(msgs).date > rest THEN Head(msgs).date ELSE rest

\* The store record of sender k, a blank row when it has none.
StoredRow(k) ==
    LET rows == {i \in 1..Len(sheet) : ToLowerCase(sheet[i].email) = k}
    IN IF rows = {} THEN BlankRow ELSE sheet[CHOOSE i \in rows : TRUE]

\* A checkpoint has just completed in a scan that no time check has cut and that has
\* not restarted over existing data.
AfterCheckpointOfPlainScan ==
    pc = "checkpointed" /\ "cut" \notin hist /\ "rescan" \notin hist

\* C13: after every checkpoint, the stored sampleSubject of a sender is the subject of
\* the first scanned message from that sender that has a non-empty subject.
C13_FirstWinsSubject ==
    AfterCheckpointOfPlainScan =>
        \A k \in Keys :
            StoredRow(k).subject = FirstSubject(ScannedMessages(ReadCursor(props)), k)

\* C14: after every checkpoint, the stored lastSeen of a sender is the greatest
\* timestamp among that sender's scanned messages.
C14_LastSeenIsMax ==
    AfterCheckpointOfPlainScan =>
        \A k \in Keys :
            StoredRow(k).lastSeen = GreatestDate(ScannedMessages(ReadCursor(props)), k)

\* The last invocation was ended by a thrown error of the kind.
AbortedBy(kind) == pc = "idle" /\ aborted = kind

\* The invocation that follows a failed fetch starts at the cursor of the last
\* checkpoint.
ResumesFromCommitted == (AbortedBy("fetch") /\ pc' = "started") => cursor' = committed.cursor

\* C15: after a source fetch has thrown, the persisted cursor and totalProcessed are
\* those of the last completed checkpoint (of the entry, if there was none), the store
\* and the index hold what it committed, and the next invocation starts at that cursor.
C15_FetchFailureKeepsCheckpoint ==
    /\ [](AbortedBy("fetch") =>
            /\ ReadCursor(props) = committed.cursor
            /\ ReadTotal(props) = committed.total
            /\ sheet = committed.sheet /\ flushedSheet = committed.sheet
            /\ indexSheet = committed.index /\ flushedIndex = committed.index)
    /\ [][ResumesFromCommitted]_vars

C15_Witness ==
    /\ AbortedBy("fetch")
    /\ committed.cursor > 0
    /\ Len(committed.sheet) > 0
    /\ committed.cursor < Len(inbox)

\* C16: after a store or index write of a merge has thrown, the persisted cursor and
\* totalProcessed are those the checkpoint found, not the ones it was to save.
C16_WriteFailureKeepsCursor ==
    AbortedBy("write") =>
        /\ ReadCursor(props) = committed.cursor
        /\ ReadTotal(props) = committed.total

C16_Witness ==
    /\ AbortedBy("write")
    /\ Len(sheet) > Len(committed.sheet)
    /\ ReadCursor(props) < Len(inbox)

\* C17: when an autoScanBatch invocation whose batch found a non-empty source
\* exhausted has returned, no autoScanBatch trigger remains and AUTO_SCAN_ENABLED is
\* cleared.
C17_AutoScanStopsWhenDone ==
    (pc = "idle" /\ caller = "autoScanBatch" /\ scanDone /\ Len(inbox) > 0)
        => (triggers = 0 /\ ~autoScanEnabled)

\* C18: when deleteAllFromSender has returned, every thread that matched the query at
\* the call is in the trash and the reported total is the number of threads trashed.
C18_DeleteAllTrashesAll ==
    delPc = "returned" => (delMatched \subseteq trashed /\ delTotal = Cardinality(trashed))

\* The values of body.confirm that are not truthy.
FalsyConfirm == {"undefined", "false", "null", "0", "\"\""}

\* A scan.reset request without a truthy confirm gets the error and changes nothing.
UnconfirmedResetStep ==
    (lastPost' # lastPost /\ lastPost'.confirm \in FalsyConfirm) =>
        /\ lastPost'.body = "Reset requires confirm=true"
        /\ lastPost'.status = 400
        /\ sheet' = sheet /\ flushedSheet' = flushedSheet
        /\ indexSheet' = indexSheet /\ flushedIndex' = flushedIndex
        /\ props' = props
        /\ autoScanEnabled' = autoScanEnabled

\* C19: a POST scan.reset whose body has no truthy confirm returns the error 'Reset
\* requires confirm=true' and changes neither the store, the index nor a property.
C19_UnconfirmedResetRejected == [][UnconfirmedResetStep]_vars

C19_Witness ==
    /\ lastPost.status = 400
    /\ lastPost.confirm \in FalsyConfirm
    /\ Len(sheet) > 0
    /\ Len(indexSheet) > 0
    /\ props.initialized # <<>>

\* The addresses of the valid senders of the request.
ValidEmails ==
    {validSenders(clsSenders)[i].email : i \in 1..Len(validSenders(clsSenders))}

\* The model returned the address, in some casing, for batch b, and batch b holds it.
ReturnedForItsBatch(address, b) ==
    /\ \E j \in 1..Len(clsOutputs[b]) :
          ToLowerCase(clsOutputs[b][j]) = ToLowerCase(address)
    /\ \E j \in 1..Len(Batch(validSenders(clsSenders), b)) :
          ToLowerCase(Batch(validSenders(clsSenders), b)[j].email) = ToLowerCase(address)

\* C20: the delete list of a 200 response holds only addresses of valid senders of the
\* request, in a casing of the input, no address twice (in any casing), and each one
\* was returned by the model for a batch that holds it.
C20_DeleteListWithinInput ==
    (clsPc = "replied" /\ clsReply.status = 200) =>
        LET list == clsReply.delete IN
        /\ \A i \in 1..Len(list) : list[i] \in ValidEmails
        /\ \A i, j \in 1..Len(list) :
              ToLowerCase(list[i]) = ToLowerCase(list[j]) => i = j
        /\ \A i \in 1..Len(list) :
              \E b \in 1..Len(clsOutputs) : ReturnedForItsBatch(list[i], b)

C20_Witness ==
    /\ clsPc = "replied"
    /\ clsReply.status = 200
    /\ Len(clsOutputs) = 2
    /\ clsReply.delete = <<"A@x.io", "b@x.io">>
    /\ clsOutputs[1] = <<"a@x.io", "nobody">>
    /\ clsOutputs[2] = <<"B@x.io", "a@x.io">>

\* ------------------------------------------------------------ C23
\* The threads the cursor moves over in one pass of the per-thread loop are the threads
\* whose messages were absorbed: the aggregator after the pass is the aggregator before
\* it with exactly the messages of threads cursor .. cursor' - 1 absorbed.
AdvanceCoversAbsorbed ==
    pc = "page" =>
        runMap' = ProcessThreads(Search(cursor, PAGE_SIZE_THREADS), cursor' - cursor,
                                 runMap)

\* C23: when the hard runtime limit is reached inside the per-thread loop of a fetched
\* page, the cursor advances only over the threads whose messages were absorbed into
\* the aggregator, so no thread below the cursor has been skipped.
C23_CursorAdvancesOverAbsorbed == [][AdvanceCoversAbsorbed]_vars

\* ------------------------------------------------------------ C24
\* A step that drops the aggregator's buckets is the reset after a loop checkpoint or
\* the return after the final checkpoint, and at that point the checkpoint that merged
\* them is the committed one: every bucket's sender has its store row.
DiscardOnlyAfterMerge ==
    (runMap # <<>> /\ runMap' = <<>>) =>
        /\ \/ pc = "checkpointed" /\ ~finalCheckpoint
           \/ pc = "probe" /\ finalCheckpoint
        /\ committed.cursor = cursor
        /\ committed.sheet = sheet
        /\ committed.index = indexSheet
        /\ RunMapKeys \subseteq (SheetKeys \cap IndexKeys)

\* The loop's exit with buckets left leads into the final checkpoint.
ExitWithBucketsCheckpoints == (pc = "final" /\ runMap # <<>>) => pc' = "merge"

FinalCheckpointStep == DiscardOnlyAfterMerge /\ ExitWithBucketsCheckpoints

\* C24: when the main loop exits (source exhausted or time budget reached) with a
\* non-empty aggregator, a final checkpoint merges the remaining buckets before the
\* function returns; no bucket is discarded without having been merged into the store.
C24_FinalCheckpointMergesAll == [][FinalCheckpointStep]_vars

\* Both exits: the time budget reached with buckets left, and the source exhausted.
C24_Witness ==
    /\ pc = "probe" /\ runMap # <<>> /\ finalCheckpoint
    /\ committed.cursor = cursor /\ cursor > 0

\* ------------------------------------------------------------ C25
\* The properties left by the return after the final probe.
ReturnAfterProbe ==
    pc = "probe" =>
        IF Search(cursor, 1) = <<>>
        THEN /\ props'.cursor = <<>>
             /\ props'.totalProcessed = <<>>
             /\ props'.initialized = <<>>
        ELSE /\ props'.cursor = <<cursor>>
             /\ props'.totalProcessed = <<totalProcessed>>
             /\ props'.initialized # <<>>

\* C25: when buildSenderReportBatch returns after its final probe, an empty probe
\* leaves cursor, totalProcessed and initialized all absent; otherwise the persisted
\* cursor and totalProcessed are the offset and total reached in this invocation and
\* initialized stays set.
C25_DoneClearsElseSaves == [][ReturnAfterProbe]_vars

\* An invocation has returned after a probe that found threads remaining.
C25_Witness ==
    /\ pc = "idle" /\ runs = 1 /\ ~scanDone
    /\ props.initialized # <<>>
    /\ ReadCursor(props) \in 1..(Len(inbox) - 1)
    /\ ReadTotal(props) = ReadCursor(props)

\* ------------------------------------------------------------ C26
\* A checkpoint is due: a threshold is reached and the aggregator holds buckets.
CheckpointDue ==
    /\ runMap # <<>>
    /\ threadsSinceCheckpoint >= CHECKPOINT_THREADS \/ intervalElapsed

\* After a page with a checkpoint due the checkpoint starts; no page is fetched while
\* one is due; the checkpoint that completes inside the loop has committed the current
\* cursor and total with the store, and the loop goes on with an empty aggregator, a
\* zero thread counter and a restarted checkpoint timer.
CheckpointTriggerStep ==
    /\ (pc = "page" /\ CheckpointDue') => pc' = "merge"
    /\ (pc = "loop" /\ pc' = "page") => ~CheckpointDue
    /\ (pc = "checkpointed" /\ ~finalCheckpoint) =>
          /\ props.cursor = <<cursor>>
          /\ props.totalProcessed = <<totalProcessed>>
          /\ flushedSheet = sheet /\ flushedIndex = indexSheet
          /\ RunMapKeys \subseteq SheetKeys
          /\ pc' = "loop"
          /\ runMap' = <<>>
          /\ threadsSinceCheckpoint' = 0
          /\ ~intervalElapsed'

\* C26: after a page has been processed, if the threads processed since the last
\* checkpoint are at least CHECKPOINT_THREADS or the checkpoint interval has elapsed,
\* and the aggregator is non-empty, a checkpoint carrying the current cursor and
\* totalProcessed is committed before the next page is fetched; after it the aggregator
\* is empty and the thread counter and the checkpoint timer are reset.
C26_CheckpointTrigger == [][CheckpointTriggerStep]_vars

\* A checkpoint triggered by the thread threshold alone has just been committed.
C26_Witness ==
    /\ pc = "checkpointed" /\ ~finalCheckpoint
    /\ threadsSinceCheckpoint >= CHECKPOINT_THREADS /\ ~intervalElapsed
    /\ runMap # <<>>

\* ------------------------------------------------------------ C27
\* C27: store rows and their index entries are committed as one unit: when an execution
\* has stopped inside mergeRunMapUsingIndex, no store row exists without its index
\* entry, so the retry appends no second store row for the same sender.
C27_StoreAndIndexCommittedTogether ==
    pc = "idle" =>
        /\ SheetKeys \subseteq IndexKeys
        /\ \A i, j \in 1..Len(sheet) :
              ToLowerCase(sheet[i].email) = ToLowerCase(sheet[j].email) => i = j

\* ------------------------------------------------------------ C28
RECURSIVE SumStored(_)
\* The counts of the store's rows of the senders ks, added up.
SumStored(ks) ==
    IF ks = {} THEN 0
    ELSE LET k == CHOOSE x \in ks : TRUE IN StoredCount(k) + SumStored(ks \ {k})

RECURSIVE SumTrue(_)
\* The inbox messages of the senders ks, counted.
SumTrue(ks) ==
    IF ks = {} THEN 0
    ELSE LET k == CHOOSE x \in ks : TRUE
         IN TrueCount(k, Len(inbox)) + SumTrue(ks \ {k})

\* A reset leaves two header-only sheets and no property, and the invocation that
\* follows starts at offset 0 against the empty store.
ResetStep ==
    /\ (pc = "idle" /\ pc' = "idle") =>
          /\ sheet' = <<>> /\ indexSheet' = <<>>
          /\ flushedSheet' = <<>> /\ flushedIndex' = <<>>
          /\ props' = NoProps
    /\ (pc = "idle" /\ "reset" \in hist /\ sheet = <<>> /\ props = NoProps
                     /\ pc' = "started") =>
          /\ cursor' = 0 /\ totalProcessed' = 0
          /\ sheet' = <<>> /\ indexSheet' = <<>>
          /\ "rescan" \notin hist'

\* The store after the full scan that followed a reset of a filled store: its rows
\* are of senders of the inbox, they hold no more messages than the inbox does, and
\* when no page was cut short and no row has moved they hold each sender's count.
ScanAfterReset ==
    (pc = "idle" /\ scanDone /\ "reset" \in hist /\ "rescan" \notin hist) =>
        /\ SheetKeys \subseteq Keys
        /\ SumStored(Keys) <= SumTrue(Keys)
        /\ ("cut" \notin hist /\ RowsInPlace) => AllCounts(Len(inbox))

\* C28: after resetScanApi (or a confirmed resetScan) the store and the index hold only
\* their header rows and cursor, totalProcessed and initialized are absent, so the next
\* buildSenderReportBatch starts at offset 0 against an empty store and the full scan
\* that follows yields counts that contain nothing from before the reset.
C28_ResetStartsOver == [][ResetStep]_vars /\ []ScanAfterReset

\* A filled store was reset and the scan that followed has finished with rows stored.
C28_Witness ==
    /\ pc = "idle" /\ scanDone /\ "reset" \in hist /\ "rescan" \notin hist
    /\ Len(sheet) > 0 /\ Len(committed.sheet) > 0

\* ------------------------------------------------------------ C29
\* Every step keeps the index entries there are, in place and unchanged, and at most
\* appends to them; the one exception is the full reset.
IndexAppendOnlyStep ==
    \/ /\ Len(indexSheet') >= Len(indexSheet)
       /\ SubSeq(indexSheet', 1, Len(indexSheet)) = indexSheet
    \/ /\ pc = "idle"
       /\ indexSheet' = <<>> /\ sheet' = <<>> /\ props' = NoProps

\* No key has two index entries.
IndexKeysUnique ==
    \A i, j \in 1..Len(indexSheet) :
        ToLowerCase(indexSheet[i].key) = ToLowerCase(indexSheet[j].key) => i = j

\* C29: index entries are append-only: once written, an entry's row value is not
\* changed and the entry is not removed by any operation other than a full reset, and
\* no merge writes a second entry for a key that is already in the index.
C29_IndexAppendOnly == [][IndexAppendOnlyStep]_vars /\ []IndexKeysUnique

\* A merge has appended entries to a filled index and has senders that were in it.
C29_Witness ==
    /\ pc = "mergeUpdate" /\ existingUpdates # <<>>
    /\ committed.index # <<>>
    /\ Len(indexSheet) > Len(committed.index)

\* ------------------------------------------------------------ C30
\* The message's From field holds an address.
HasAddress(m) == m.from.form # "none"

\* The threads with the messages whose From field holds no address left out.
WithoutAddressless(threads) ==
    [i \in 1..Len(threads) |-> SelectSeq(threads[i], HasAddress)]

\* A page whose per-thread loop ran to its end: the aggregator is what the page's
\* messages with an address make of it, and the cursor has moved over every thread.
AddresslessSkippedStep ==
    (pc = "page" /\ ~timeOver') =>
        LET threads == Search(cursor, PAGE_SIZE_THREADS) IN
           /\ runMap' = ProcessThreads(WithoutAddressless(threads), Len(threads), runMap)
           /\ cursor' = cursor + Len(threads)

\* C30: a message whose From field yields no address is skipped: it creates no bucket
\* and changes no bucket's count or fields, the remaining messages of the page are
\* still processed, and the cursor still advances over the thread that contains it.
C30_AddresslessMessageSkipped == [][AddresslessSkippedStep]_vars

\* A thread with an addressless message between two messages of a@x.io has been
\* processed whole, and both of these are in the aggregator.
C30_Witness ==
    /\ pc \in {"loop", "merge"} /\ ~timeOver
    /\ threadsSinceCheckpoint > 0
    /\ \E i \in (cursor - threadsSinceCheckpoint + 1)..cursor :
          \E j \in 2..(Len(inbox[i]) - 1) : ~HasAddress(inbox[i][j])
    /\ \E b \in 1..Len(runMap) : runMap[b].key = "a@x.io" /\ runMap[b].count >= 2
    /\ \A b \in 1..Len(runMap) : runMap[b].key \in Keys

\* ------------------------------------------------------------ C21
\* The status the request calls for, by the first check it fails; 0 when it passes all
\* of them and the model is called.
StatusBeforeModel ==
    CASE clsReq.method = "OPTIONS" -> 204
      [] clsReq.method \notin {"OPTIONS", "POST"} -> 405
      [] clsReq.method = "POST" /\ ~clsReq.apiKey -> 500
      [] clsReq.method = "POST" /\ clsReq.apiKey
           /\ (~clsReq.sendersIsArray \/ Len(clsSenders) = 0) -> 400
      [] clsReq.method = "POST" /\ clsReq.apiKey /\ clsReq.sendersIsArray
           /\ Len(clsSenders) > 0 /\ ValidEmails = {} -> 400
      [] OTHER -> 0

\* A call of the model has failed: fewer answers than batches.
ModelCallFailed == Len(clsOutputs) < NumBatches(validSenders(clsSenders))

\* C21: the classify handler sends exactly one response per request, with the status
\* determined in this order: OPTIONS gives 204; any other non-POST method gives 405; a
\* missing GEMINI_API_KEY gives 500; senders not a non-empty array gives 400; no sender
\* with a string email containing '@' gives 400; a failed model call gives 502 with no
\* delete list; otherwise 200 with a delete array.
C21_OneResponseStatusOrder ==
    IF clsPc # "replied"
    THEN clsReply.count = 0
    ELSE /\ clsReply.count = 1
         /\ IF StatusBeforeModel # 0
            THEN clsReply.status = StatusBeforeModel /\ clsReply.body # "delete"
                 /\ clsOutputs = <<>>
            ELSE IF ModelCallFailed
            THEN clsReply.status = 502 /\ clsReply.body = "error"
            ELSE clsReply.status = 200 /\ clsReply.body = "delete"

\* The second call of the model has failed and 502 was sent.
C21_Witness ==
    /\ clsPc = "replied" /\ clsReply.status = 502 /\ clsReply.count = 1
    /\ Len(clsOutputs) = 1
    /\ clsOutputs[1] # <<>>

\* ------------------------------------------------------------ C22
\* An invocation of buildSenderReportBatch is active in the first execution.
CycleActive == pc \notin {"idle", "autoCheck"}

\* C22: at no time are two scan cycles active for the same user's dataset: executions
\* of buildSenderReportBatch started by the autoScanBatch trigger, by startAutoScan's
\* immediate batch and by startScanApi never overlap, so two cycles never read the same
\* persisted cursor and merge the same threads.
C22_CyclesNeverOverlap == ~(CycleActive /\ other.pc # "idle")

\* ------------------------------------------------------------ getStatusApi
\* getStatusApi: the status and hasMore it reports for the persisted state.
getStatusApi ==
    LET initialized == props.initialized # <<>>
        hasMore == initialized /\ Search(ReadCursor(props), 1) # <<>>
    IN [status |-> IF initialized
                   THEN (IF hasMore THEN "in_progress" ELSE "complete")
                   ELSE "not_started",
        cursor |-> ReadCursor(props),
        totalProcessed |-> ReadTotal(props),
        hasMore |-> hasMore]

\* ------------------------------------------------------------ C39
\* C39: once an invocation of buildSenderReportBatch has ended with done = true,
\* getStatusApi reports status 'complete' with hasMore = false until a new scan is
\* started or the scan is reset; 'not_started' is reported only when no scan has run
\* since the last reset.
C39_CompleteAfterDone ==
    /\ (pc = "idle" /\ scanDone) =>
          getStatusApi.status = "complete" /\ ~getStatusApi.hasMore
    /\ (pc = "idle" /\ getStatusApi.status = "not_started") => ~scanDone

\* ------------------------------------------------------------ C38
\* C38: in every state in which both are present, the states left by a kill included,
\* the persisted cursor equals the persisted totalProcessed (for a scan started from a
\* fresh or reset state).  Stated for the states between executions.
C38_CursorEqualsTotal ==
    (pc = "idle" /\ props.cursor # <<>> /\ props.totalProcessed # <<>>) =>
        props.cursor = props.totalProcessed

\* ------------------------------------------------------------ C37
\* A step between initialization and the next done or reset: initialized is set before
\* and after it.  The cursor it leaves is not below the one it found and not above the
\* number of threads in the source.
CursorMonotoneStep ==
    (props.initialized # <<>> /\ props'.initialized # <<>>) =>
        /\ props'.cursor # <<>>
        /\ ReadCursor(props') >= ReadCursor(props)
        /\ ReadCursor(props') <= Len(inbox)

C36_UncommittedBelowThreshold ==
    pc = "loop" => cursor - ReadCursor(props) < CHECKPOINT_THREADS

\* C33: under any sequence of startAutoScan, stopAutoScan and autoScanBatch calls at
\* most one autoScanBatch trigger exists, and a startAutoScan leaves exactly one,
\* however many there were, because it removes the existing ones first.
StartAutoScanStep ==
    (caller' = "startAutoScan" /\ runs' = runs + 1) => triggers' = 1

C33_AtMostOneTrigger ==
    [][StartAutoScanStep]_vars /\ [](triggers <= 1)

\* A second invocation, made by startAutoScan, with one trigger in place.
C33_Witness ==
    pc = "started" /\ caller = "startAutoScan" /\ runs = 2 /\ triggers = 1

\* C34: between calls, isAutoScanEnabled() is true exactly when an autoScanBatch
\* trigger exists.
C34_EnabledIffTrigger ==
    pc = "idle" => (autoScanEnabled <=> triggers > 0)

\* C32: when buildSenderReportBatch or the completion probe throws inside
\* autoScanBatch, the execution ends there with the autoScanBatch trigger and the
\* AUTO_SCAN_ENABLED flag as they were, so the trigger is still there to fire at the
\* next interval.
ErrorInAutoScanBatchStep ==
    (failures' = failures + 1 /\ caller = "autoScanBatch") =>
        /\ pc' = "idle"
        /\ triggers' = triggers /\ triggers' > 0
        /\ autoScanEnabled' = autoScanEnabled

C32_ErrorKeepsAutoScan == [][ErrorInAutoScanBatchStep]_vars

\* An autoScanBatch execution ended by a thrown error, the auto-scan still on.
C32_Witness ==
    /\ pc = "idle" /\ caller = "autoScanBatch" /\ aborted \in {"fetch", "write", "probe"}
    /\ triggers = 1 /\ autoScanEnabled

\* C35: a doActionApi call leaves the sheet with the same rows in the same places;
\* a row whose address was requested and whose actions succeeded is unchecked and
\* has its notes and processed timestamp set, one whose actions threw has only its
\* notes set, to the ERROR text; the address, name, count, subject, last-seen and
\* unsubscribe fields of every row, and every field of a row not requested, are
\* as before.
RowAfterAction(before, after, requested, failed) ==
    /\ after.email = before.email /\ after.name = before.name
    /\ after.count = before.count /\ after.subject = before.subject
    /\ after.lastSeen = before.lastSeen
    /\ after.unsubUrl = before.unsubUrl /\ after.unsubMailto = before.unsubMailto
    /\ ~requested => after = before
    /\ (requested /\ ~failed) =>
          ~after.act /\ after.notes = "result" /\ after.processed = "timestamp"
    /\ (requested /\ failed) =>
          /\ after.notes = "ERROR"
          /\ after.act = before.act /\ after.processed = before.processed

DoActionStep ==
    (actionWrites' = actionWrites + 1 /\ lastAction'.api = "doActionApi") =>
        /\ Len(sheet') = Len(sheet)
        /\ \A i \in 1..Len(sheet) :
              RowAfterAction(sheet[i], sheet'[i],
                             ToLowerCase(sheet[i].email) \in lastAction'.emails,
                             ToLowerCase(sheet[i].email) \in lastAction'.failing)

C35_DoActionTouchesRequestedRowsOnly == [][DoActionStep]_vars

\* After a doActionApi call on a sheet of two senders: the requested row, whose
\* action threw, with the ERROR note and still checked, and the row not requested
\* still checked.
C35_Witness ==
    /\ lastAction.api = "doActionApi"
    /\ \E j, k \in 1..Len(sheet) :
          /\ ToLowerCase(sheet[j].email) \in lastAction.failing
          /\ sheet[j].notes = "ERROR" /\ sheet[j].act
          /\ ToLowerCase(sheet[k].email) \notin lastAction.emails
          /\ sheet[k].act

\* C31: on a source that has threads and does not change, invocation after
\* invocation, each getting through at least one page before the hard limit, some
\* invocation ends with done = true; and every invocation that ends with
\* done = false leaves a persisted cursor greater than the one it started with.
NotDoneAdvancesStep ==
    (pc = "probe" /\ pc' # "probe" /\ ~scanDone') =>
        (props'.cursor # <<>> /\ props'.cursor[1] > startCursor)

C31_ScanTerminates ==
    /\ [][NotDoneAdvancesStep]_vars
    /\ <>(scanDone \/ Len(inbox) = 0)

\* The second invocation has ended with done = true after the first one ended
\* without it and the second resumed from its cursor.
C31_Witness ==
    /\ pc = "idle" /\ scanDone /\ runs = 2
    /\ Len(inbox) > PAGE_SIZE_THREADS
    /\ Len(sheet) > 0 /\ "rescan" \notin hist
====
